---- MODULE Spec2Model ----
(***************************************************************************)
(* Model of the two acquisition pipelines of henrico_crash_tool:           *)
(*   download_crash_data.py  (paginated query source, bulk CSV fallback,   *)
(*                            filter chain, column standardisation, CSV)   *)
(*   download_grants_data.py (dated bulk-extract adapter with lookback)    *)
(* Strings are sequences of one-character strings so that strip, upper and *)
(* the regular expressions of the filters are computed, not assumed.       *)
(***************************************************************************)
EXTENDS Integers, Sequences, FiniteSets, TLC

(***************************************************************************)
(* Bounds of the model                                                     *)
(***************************************************************************)
\* largest record count the feature service reports for a count query
MaxTotal == 4
\* page size of the paginated fetch (2000 in the program, scaled down)
RECORDS_PER_REQUEST == 2
\* largest number of rows of the bulk CSV export
MaxCsvRows == 2
\* the most records an archive of grants holds
MaxGrantRows == 2
\* clock ticks (passes of the scheduler loop) in a week, and ticks observed
WeekTicks == 4
MaxClock == 12

(***************************************************************************)
(* Character strings                                                       *)
(***************************************************************************)
LowerChars == <<"a","b","c","d","e","f","g","h","i","j","k","l","m",
                "n","o","p","q","r","s","t","u","v","w","x","y","z">>
UpperChars == <<"A","B","C","D","E","F","G","H","I","J","K","L","M",
                "N","O","P","Q","R","S","T","U","V","W","X","Y","Z">>
DigitChars == <<"0","1","2","3","4","5","6","7","8","9">>

StrUpper(s) ==
    LET
        ToUpperChar(c) ==
            IF \E i \in 1..26 : LowerChars[i] = c
            THEN UpperChars[CHOOSE i \in 1..26 : LowerChars[i] = c]
            ELSE c
    IN  [i \in 1..Len(s) |-> ToUpperChar(s[i])]

IsDigit(c) == \E i \in 1..10 : DigitChars[i] = c

IsSpace(c) == c = " "

\* str.strip(): drop leading and trailing whitespace
StrStrip(s) ==
    IF \A i \in 1..Len(s) : IsSpace(s[i]) THEN <<>>
    ELSE LET a == CHOOSE i \in 1..Len(s) :
                      ~IsSpace(s[i]) /\ \A j \in 1..(i-1) : IsSpace(s[j])
             b == CHOOSE i \in 1..Len(s) :
                      ~IsSpace(s[i]) /\ \A j \in (i+1)..Len(s) : IsSpace(s[j])
         IN  SubSeq(s, a, b)

\* the literal lit occurs in s at position p (regex literal, "." = any char)
LitAt(s, p, lit) ==
    /\ p >= 1
    /\ p + Len(lit) - 1 <= Len(s)
    /\ \A k \in 1..Len(lit) : lit[k] = "." \/ s[p + k - 1] = lit[k]

\* re.search(lit, s): the literal occurs somewhere in s
Contains(s, lit) == \E p \in 1..(Len(s) + 1) : LitAt(s, p, lit)

\* case-insensitive variants (case=False): both sides are upper-cased
LitAtCI(s, p, lit) == LitAt(StrUpper(s), p, StrUpper(lit))

ContainsCI(s, lit) == Contains(StrUpper(s), StrUpper(lit))

\* ^R-VA\s*<rest> : the prefix R-VA, any run of whitespace, then rest
RVaThen(s, rest) ==
    /\ LitAtCI(s, 1, <<"R","-","V","A">>)
    /\ \E k \in 0..Len(s) :
          /\ \A j \in 5..(4 + k) : j <= Len(s) /\ IsSpace(s[j])
          /\ LitAtCI(s, 5 + k, rest)

(***************************************************************************)
(* Cell values and astype(str)                                             *)
(***************************************************************************)
\* a text cell
StrCell(chars) == [t |-> "str", s |-> chars, n |-> 0]
\* an integer cell (JSON number, or a CSV column parsed as int64)
IntCell(k) == [t |-> "int", s |-> <<>>, n |-> k]
\* a missing cell
NaN == [t |-> "nan", s |-> <<>>, n |-> 0]

RECURSIVE Digits(_)
Digits(k) == IF k < 10 THEN <<DigitChars[k + 1]>>
             ELSE Digits(k \div 10) \o <<DigitChars[(k % 10) + 1]>>

\* Series.astype(str) on one cell
AsStr(v) ==
    CASE v.t = "str" -> v.s
      [] v.t = "int" -> Digits(v.n)
      [] OTHER       -> <<"n","a","n">>

(***************************************************************************)
(* Program constants of download_crash_data.py                             *)
(***************************************************************************)
HENRICO_FIPS == <<"0","8","7">>
HENRICO_JURIS_CODE == <<"4","3">>
HENRICO_NAME_PATTERNS ==
    << <<"H","E","N","R","I","C","O">>,
       <<"0","4","3","."," ","H","e","n","r","i","c","o"," ",
         "C","o","u","n","t","y">> >>

where_clauses ==
    << "Juris_Code = '43' OR Juris_Code = 43",
       "Physical_Juris_Name LIKE '%HENRICO%' OR Physical_Juris_Name LIKE '%Henrico%'",
       "COUNTYFP = '087' OR FIPS = '087'" >>
SelectAll == "1=1"

juris_columns == <<"Juris_Code", "JURIS_CODE", "juris_code", "Juris Code">>
name_columns == <<"Physical_Juris_Name", "PHYSICAL_JURIS_NAME",
                  "Physical Juris Name", "PHYSICAL_JURIS">>
fips_columns == <<"COUNTYFP", "FIPS", "County_FIPS", "countyfp">>
route_columns == <<"RTE_NM", "RTE_NAME", "RTE NAME", "Rte_Name", "Route_Name",
                   "ROUTE_NAME", "RTE_Name", "RTE Name">>
system_columns == <<"SYSTEM", "System", "system">>

NoColumn == "<none>"

\* for col in aliases: if col in df.columns: ...; break
FirstPresent(aliases, cols) ==
    IF \E i \in 1..Len(aliases) : aliases[i] \in cols
    THEN aliases[CHOOSE i \in 1..Len(aliases) :
                    /\ aliases[i] \in cols
                    /\ \A j \in 1..(i-1) : aliases[j] \notin cols]
    ELSE NoColumn

(***************************************************************************)
(* Upstream data: rows by logical field, and the column naming variants    *)
(***************************************************************************)
RowUniverse ==
    LET
        RowA == [juris  |-> StrCell(<<"4","3">>),
                 name   |-> StrCell(<<"0","4","3","."," ","H","e","n","r","i","c","o"," ",
                                  "C","o","u","n","t","y">>),
                 fips   |-> StrCell(<<"0","8","7">>),
                 route  |-> StrCell(<<"S","-","V","A","6","2","0">>),
                 route2 |-> StrCell(<<"S","-","V","A","6","2","0">>),
                 system |-> StrCell(<<"N","o","n","V","D","O","T"," ","s","e","c">>),
                 oid    |-> IntCell(1)]

        RowB == [juris  |-> IntCell(43),
                 name   |-> StrCell(<<"H","E","N","R","I","C","O">>),
                 fips   |-> StrCell(<<"0","8","7">>),
                 route  |-> StrCell(<<"I","-","6","4">>),
                 route2 |-> StrCell(<<"R","-","V","A"," "," ","I","S","0","0","0","6","4">>),
                 system |-> StrCell(<<"V","D","O","T"," ","I","n","t","e","r","s","t","a","t","e">>),
                 oid    |-> IntCell(2)]

        RowC == [juris  |-> StrCell(<<"5","1">>),
                 name   |-> StrCell(<<"R","i","c","h","m","o","n","d">>),
                 fips   |-> IntCell(760),
                 route  |-> StrCell(<<"R","-","V","A"," ","U","S","0","0","2","5","0">>),
                 route2 |-> NaN,
                 system |-> StrCell(<<"N","O","N","V","D","O","T">>),
                 oid    |-> IntCell(3)]

        RowD == [juris  |-> StrCell(<<" ","4","3"," ">>),
                 name   |-> NaN,
                 fips   |-> StrCell(<<"0","8","7">>),
                 route  |-> StrCell(<<"S","-","V","A","6","2","1">>),
                 route2 |-> StrCell(<<"B","u","s","i","n","e","s","s"," ","1">>),
                 system |-> StrCell(<<"V","D","O","T"," ","S","e","c">>),
                 oid    |-> IntCell(4)]
    IN  {RowA, RowB, RowC, RowD}

SchemaUniverse ==
    LET
        \* a naming variant: the columns the upstream serves, in order, each with
        \* the logical field whose values it carries
        SchemaFull == << <<"OBJECTID", "oid">>, <<"Juris_Code", "juris">>,
                         <<"Physical_Juris_Name", "name">>, <<"COUNTYFP", "fips">>,
                         <<"RTE_NM", "route">>, <<"SYSTEM", "system">> >>

        SchemaUpper == << <<"OBJECTID", "oid">>, <<"JURIS_CODE", "juris">>,
                          <<"RTE_NAME", "route">> >>

        SchemaNoRoute == << <<"PHYSICAL_JURIS", "name">>, <<"System", "system">>,
                            <<"Route", "route">> >>

        SchemaTwoRoutes == << <<"JURIS_CODE", "juris">>, <<"Juris_Code", "juris">>,
                              <<"Route_Name", "route">>, <<"RTE_NAME", "route2">>,
                              <<"SYSTEM", "system">> >>

        SchemaNoJuris == << <<"OBJECTID", "oid">>, <<"Jurisdiction", "juris">>,
                            <<"RTE_NM", "route">> >>
    IN  {SchemaFull, SchemaUpper, SchemaNoRoute, SchemaTwoRoutes,
         SchemaNoJuris}

(***************************************************************************)
(* pandas DataFrame and boolean Series, as the filters use them            *)
(* A frame is its ordered column names and its rows; a row keeps the index *)
(* label it was given when the frame was built, also through filtering.    *)
(***************************************************************************)
\* pd.DataFrame(records) / pd.read_csv: labels 0..n-1, one column per key
MakeFrame(records, schema) ==
    [cols |-> [j \in 1..Len(schema) |-> schema[j][1]],
     rows |-> [i \in 1..Len(records) |->
                 [idx  |-> i - 1,
                  vals |-> [j \in 1..Len(schema) |-> records[i][schema[j][2]]]]]]

\* pd.DataFrame() and pd.DataFrame([])
EmptyFrame == [cols |-> <<>>, rows |-> <<>>]

\* df.empty
FrameEmpty(df) == Len(df.rows) = 0 \/ Len(df.cols) = 0

\* df.columns as a set, for "col in df.columns"
Columns(df) == {df.cols[j] : j \in 1..Len(df.cols)}

\* df.index
IndexOf(df) == {df.rows[i].idx : i \in 1..Len(df.rows)}

ColPos(df, col) == CHOOSE j \in 1..Len(df.cols) : df.cols[j] = col

\* df[col].astype(str): a Series of strings carrying the frame's index
ColumnStr(df, col) ==
    [l \in IndexOf(df) |->
        LET r == CHOOSE i \in 1..Len(df.rows) : df.rows[i].idx = l
        IN  AsStr(df.rows[r].vals[ColPos(df, col)])]

\* pd.Series([b] * n): labels 0..n-1
NewMask(n, b) == [l \in 0..(n - 1) |-> b]

\* mask |= other: aligned on labels, a label other lacks counts as False,
\* and the result is re-indexed like mask
InplaceOr(mask, other) ==
    [l \in DOMAIN mask |-> IF l \in DOMAIN other THEN mask[l] \/ other[l]
                           ELSE mask[l]]

\* df[mask].copy(): the rows whose label is True in mask, labels kept
BoolIndex(df, mask) ==
    [cols |-> df.cols,
     rows |-> SelectSeq(df.rows, LAMBDA r : r.idx \in DOMAIN mask /\ mask[r.idx])]

\* what a filter step hands back: a frame, or an exception
Returned(df) == [raised |-> FALSE, df |-> df]
Raised(df) == [raised |-> TRUE, df |-> df]

FilterBy(df, mask) ==
    LET
        \* df[mask] raises IndexingError when a label of df is missing from mask
        IndexingError(frame, m) == \E l \in IndexOf(frame) : l \notin DOMAIN m
    IN  IF IndexingError(df, mask) THEN Raised(df) ELSE Returned(BoolIndex(df, mask))

(***************************************************************************)
(* The crash filter chain                                                  *)
(***************************************************************************)
\* df[col].astype(str).str.upper().str.contains(pattern.upper(), na=False)
UpperContains(df, col, pattern) ==
    LET v == ColumnStr(df, col)
    IN  [l \in DOMAIN v |-> Contains(StrUpper(v[l]), StrUpper(pattern))]

filter_henrico_county(df) ==
    LET
        \* df[col].astype(str).str.strip() == code
        CodeEquals(frame, col, code) ==
            LET v == ColumnStr(frame, col)
            IN  [l \in DOMAIN v |-> StrStrip(v[l]) = code]
    IN  LET m0 == NewMask(Len(df.rows), FALSE)
            jc == FirstPresent(juris_columns, Columns(df))
            m1 == IF jc # NoColumn
                  THEN InplaceOr(m0, CodeEquals(df, jc, HENRICO_JURIS_CODE))
                  ELSE m0
            nc == FirstPresent(name_columns, Columns(df))
            m2 == IF nc # NoColumn
                  THEN InplaceOr(InplaceOr(m1,
                           UpperContains(df, nc, HENRICO_NAME_PATTERNS[1])),
                           UpperContains(df, nc, HENRICO_NAME_PATTERNS[2]))
                  ELSE m1
            fc == FirstPresent(fips_columns, Columns(df))
            m3 == IF fc # NoColumn
                  THEN InplaceOr(m2, CodeEquals(df, fc, HENRICO_FIPS))
                  ELSE m2
        IN  FilterBy(df, m3)

\* r'^I-|^R-VA\s*IS'
InterstatePattern(s) ==
    LitAtCI(s, 1, <<"I","-">>) \/ RVaThen(s, <<"I","S">>)
\* r'^R-VA\s*US|US\d+'
UsRoutePattern(s) ==
    LET
        \* US\d+ : the letters US followed by at least one digit, anywhere
        UsDigits(t) ==
            \E p \in 1..Len(t) :
                /\ LitAtCI(t, p, <<"U","S">>)
                /\ p + 2 <= Len(t)
                /\ IsDigit(t[p + 2])
    IN  RVaThen(s, <<"U","S">>) \/ UsDigits(s)
\* r'^R-VA\s*SR|^R-VA\s*\d'
StateRoutePattern(s) ==
    LET
        \* ^R-VA\s*\d : the prefix R-VA, any run of whitespace, then a digit
        RVaThenDigit(t) ==
            /\ LitAtCI(t, 1, <<"R","-","V","A">>)
            /\ \E k \in 0..Len(t) :
                  /\ \A j \in 5..(4 + k) : j <= Len(t) /\ IsSpace(t[j])
                  /\ 5 + k <= Len(t)
                  /\ IsDigit(t[5 + k])
    IN  RVaThen(s, <<"S","R">>) \/ RVaThenDigit(s)
\* r'^R-VA\s*B|BUSINESS'
BusinessPattern(s) ==
    RVaThen(s, <<"B">>) \/ ContainsCI(s, <<"B","U","S","I","N","E","S","S">>)

filter_exclude_state_routes(df) ==
    LET
        \* mask &= other: same alignment
        InplaceAnd(mask, other) ==
            [l \in DOMAIN mask |-> IF l \in DOMAIN other THEN mask[l] /\ other[l]
                                   ELSE FALSE]

        \* ~series
        Negate(series) == [l \in DOMAIN series |-> ~series[l]]
    IN  LET route_col == FirstPresent(route_columns, Columns(df))
            route_values == ColumnStr(df, route_col)
            m0 == NewMask(Len(df.rows), TRUE)
            m1 == InplaceAnd(m0, Negate([l \in DOMAIN route_values |->
                                            InterstatePattern(route_values[l])]))
            m2 == InplaceAnd(m1, Negate([l \in DOMAIN route_values |->
                                            UsRoutePattern(route_values[l])]))
            m3 == InplaceAnd(m2, Negate([l \in DOMAIN route_values |->
                                            StateRoutePattern(route_values[l])]))
            m4 == InplaceAnd(m3, Negate([l \in DOMAIN route_values |->
                                            BusinessPattern(route_values[l])]))
        IN  IF route_col = NoColumn THEN Returned(df) ELSE FilterBy(df, m4)

filter_nonvdot_system(df) ==
    LET system_col == FirstPresent(system_columns, Columns(df))
    IN  IF system_col = NoColumn THEN Returned(df)
        ELSE FilterBy(df, UpperContains(df, system_col,
                                        <<"N","O","N","V","D","O","T">>))

(***************************************************************************)
(* standardize_columns and the CSV writer                                  *)
(***************************************************************************)
\* the rename table, in dictionary order: <<upstream name, output name>>
column_mapping ==
    << <<"OBJECTID", "OBJECTID">>, <<"DOCUMENT_NBR", "Document Nbr">>,
       <<"Document_Nbr", "Document Nbr">>, <<"CRASH_YEAR", "Crash Year">>,
       <<"Crash_Year", "Crash Year">>, <<"CRASH_DT", "Crash Date">>,
       <<"Crash_Date", "Crash Date">>,
       <<"CRASH_MILITARY_TM", "Crash Military Time">>,
       <<"Crash_Military_Time", "Crash Military Time">>,
       <<"CRASH_SEVERITY", "Crash Severity">>,
       <<"Crash_Severity", "Crash Severity">>, <<"K_PEOPLE", "K_People">>,
       <<"A_PEOPLE", "A_People">>, <<"B_PEOPLE", "B_People">>,
       <<"C_PEOPLE", "C_People">>, <<"PERSONS_INJURED", "Persons Injured">>,
       <<"Persons_Injured", "Persons Injured">>,
       <<"PEDESTRIANS_KILLED", "Pedestrians Killed">>,
       <<"Pedestrians_Killed", "Pedestrians Killed">>,
       <<"PEDESTRIANS_INJURED", "Pedestrians Injured">>,
       <<"Pedestrians_Injured", "Pedestrians Injured">>,
       <<"VEH_COUNT", "Vehicle Count">>,
       <<"Vehicle_Count", "Vehicle Count">>,
       <<"COLLISION_TYPE", "Collision Type">>,
       <<"Collision_Type", "Collision Type">>,
       <<"WEATHER_CONDITION", "Weather Condition">>,
       <<"Weather_Condition", "Weather Condition">>,
       <<"LIGHT_CONDITION", "Light Condition">>,
       <<"Light_Condition", "Light Condition">>,
       <<"ROADWAY_SURFACE_COND", "Roadway Surface Condition">>,
       <<"Roadway_Surface_Condition", "Roadway Surface Condition">>,
       <<"RELATION_TO_ROADWAY", "Relation To Roadway">>,
       <<"Relation_To_Roadway", "Relation To Roadway">>,
       <<"ROADWAY_ALIGNMENT", "Roadway Alignment">>,
       <<"Roadway_Alignment", "Roadway Alignment">>,
       <<"ROADWAY_SURFACE_TYPE", "Roadway Surface Type">>,
       <<"Roadway_Surface_Type", "Roadway Surface Type">>,
       <<"ROADWAY_DEFECT", "Roadway Defect">>,
       <<"Roadway_Defect", "Roadway Defect">>,
       <<"ROADWAY_DESCRIPTION", "Roadway Description">>,
       <<"Roadway_Description", "Roadway Description">>,
       <<"INTERSECTION_TYPE", "Intersection Type">>,
       <<"Intersection_Type", "Intersection Type">>,
       <<"TRAFFIC_CONTROL_TYPE", "Traffic Control Type">>,
       <<"Traffic_Control_Type", "Traffic Control Type">>,
       <<"TRFC_CTRL_STATUS_TYPE", "Traffic Control Status">>,
       <<"Traffic_Control_Status", "Traffic Control Status">>,
       <<"WORK_ZONE_RELATED", "Work Zone Related">>,
       <<"Work_Zone_Related", "Work Zone Related">>,
       <<"WORK_ZONE_LOCATION", "Work Zone Location">>,
       <<"Work_Zone_Location", "Work Zone Location">>,
       <<"WORK_ZONE_TYPE", "Work Zone Type">>,
       <<"Work_Zone_Type", "Work Zone Type">>,
       <<"SCHOOL_ZONE", "School Zone">>, <<"School_Zone", "School Zone">>,
       <<"FIRST_HARMFUL_EVENT", "First Harmful Event">>,
       <<"First_Harmful_Event", "First Harmful Event">>,
       <<"FIRST_HARMFUL_EVENT_LOC", "First Harmful Event Loc">>,
       <<"First_Harmful_Event_Loc", "First Harmful Event Loc">>,
       <<"JURIS_CODE", "Juris Code">>, <<"Juris_Code", "Juris Code">>,
       <<"PHYSICAL_JURIS", "Physical Juris Name">>,
       <<"Physical_Juris_Name", "Physical Juris Name">>,
       <<"FUN", "Functional Class">>,
       <<"Functional_Class", "Functional Class">>,
       <<"FAC", "Facility Type">>, <<"Facility_Type", "Facility Type">>,
       <<"AREA_TYPE", "Area Type">>, <<"Area_Type", "Area Type">>,
       <<"SYSTEM", "SYSTEM">>, <<"VSP", "VSP">>,
       <<"OWNERSHIP", "Ownership">>,
       <<"PLAN_DISTRICT", "Planning District">>,
       <<"Planning_District", "Planning District">>,
       <<"MPO_NAME", "MPO Name">>, <<"MPO_Name", "MPO Name">>,
       <<"VDOT_DISTRICT", "VDOT District">>,
       <<"VDOT_District", "VDOT District">>, <<"RTE_NM", "RTE Name">>,
       <<"RTE_NAME", "RTE Name">>, <<"RTE_Name", "RTE Name">>,
       <<"RNS_MP", "RNS MP">>, <<"NODE", "Node">>,
       <<"OFFSET", "Node Offset (ft)">>,
       <<"Node_Offset", "Node Offset (ft)">>, <<"x", "x">>, <<"y", "y">>,
       <<"ALCOHOL_NOTALCOHOL", "Alcohol?">>, <<"BIKE_NONBIKE", "Bike?">>,
       <<"PED_NONPED", "Pedestrian?">>, <<"SPEED_NOTSPEED", "Speed?">>,
       <<"DISTRACTED_NOTDISTRACTED", "Distracted?">>,
       <<"DROWSY_NOTDROWSY", "Drowsy?">>, <<"HITRUN_NOT_HITRUN", "Hitrun?">>,
       <<"SENIOR_NOTSENIOR", "Senior?">>, <<"YOUNG_NOTYOUNG", "Young?">>,
       <<"NIGHT", "Night?">>, <<"BELTED_UNBELTED", "Unrestrained?">>,
       <<"MOTOR_NONMOTOR", "Motorcycle?">>,
       <<"DRUG_NODRUG", "Drug Related?">>,
       <<"GR_NOGR", "Guardrail Related?">>,
       <<"LGTRUCK_NONLGTRUCK", "Lgtruck?">>, <<"MAINLINE_YN", "Mainline?">>,
       <<"SPEED_DIFF_MAX", "Max Speed Diff">>,
       <<"RD_TYPE", "RoadDeparture Type">> >>

standardize_columns(df) ==
    LET
        \* df.rename(columns={k: v for k, v in column_mapping.items() if k in df.columns})
        RenameColumn(c) ==
            IF \E k \in 1..Len(column_mapping) : column_mapping[k][1] = c
            THEN column_mapping[CHOOSE k \in 1..Len(column_mapping) :
                                    column_mapping[k][1] = c][2]
            ELSE c
    IN  [cols |-> [j \in 1..Len(df.cols) |-> RenameColumn(df.cols[j])],
         rows |-> df.rows]

\* one cell of the written file: a missing value is written as the empty string
CsvCell(v) == IF v.t = "nan" THEN <<>> ELSE AsStr(v)

\* df.to_csv(OUTPUT_FILE, index=False): header row and one line per row,
\* the index labels are not written
to_csv(df) ==
    [exists |-> TRUE,
     header |-> df.cols,
     lines  |-> [i \in 1..Len(df.rows) |->
                   [j \in 1..Len(df.cols) |-> CsvCell(df.rows[i].vals[j])]]]

\* no output file on disk
NoFile == [exists |-> FALSE, header |-> <<>>, lines |-> <<>>]

\* the file a previous run left behind
PreviousOutput ==
    [exists |-> TRUE,
     header |-> <<"OBJECTID", "Juris Code">>,
     lines  |-> << <<<<"9">>, <<"4","3">>>> >>]

(***************************************************************************)
(* State of one process of download_crash_data.py                          *)
(***************************************************************************)
VARIABLES
    pc,           \* where the process is: start, count, count_all, page,
                  \* arcgis_end, fallback, juris, route, system, save,
                  \* returned (main returned 0), exit (sys.exit), crashed
    status,       \* exit status once pc is exit or crashed
    cand,         \* download_from_arcgis: index of the candidate being counted
    where_clause, \* download_from_arcgis: the filter expression chosen
    count,        \* download_from_arcgis: the reported total
    offset,       \* download_from_arcgis: resultOffset of the next page
    all_records,  \* download_from_arcgis: records accumulated so far
    requests,     \* requests the running call of download_from_arcgis issued
    primary,      \* outcome of download_from_arcgis: pending, returned, raised
    csvRequested, \* the bulk CSV source has been requested
    source,       \* which source supplied df: none, arcgis, csv
    raw,          \* the frame as acquired
    dfIn,         \* the frame the latest filter step was given
    df,           \* main's df
    step,         \* the latest filter step that ran: none, juris, route, system
    outputFile,   \* data/crashes.csv
    fileAtStart,  \* data/crashes.csv as the process found it
    wrote         \* to_csv has run

crashVars == <<pc, status, cand, where_clause, count, offset, all_records,
               requests, primary, csvRequested, source, raw, dfIn, df, step,
               outputFile, fileAtStart, wrote>>

NoWhere == "<unset>"

\* a datetime local that has not been assigned
NoDate == [day |-> 0, tod |-> 0]

\* all sequences over S of length 0..n
SeqsUpTo(S, n) == UNION {[1..k -> S] : k \in 0..n}

(***************************************************************************)
(* What the upstream services may answer                                   *)
(***************************************************************************)
\* a count query: a transport/protocol failure, or a reported total
CountResponses ==
    {[ok |-> FALSE, n |-> 0]} \cup {[ok |-> TRUE, n |-> k] : k \in 0..MaxTotal}

\* a page query: a failure, or up to RECORDS_PER_REQUEST records; the service
\* holds at most MaxTotal records in all
PageResponses(room) ==
    LET
        Min(a, b) == IF a < b THEN a ELSE b
    IN  {[ok |-> FALSE, recs |-> <<>>]} \cup
        {[ok |-> TRUE, recs |-> r] :
            r \in SeqsUpTo(RowUniverse, Min(RECORDS_PER_REQUEST, room))}

\* the bulk CSV export: a failure, or a table
CsvResponses ==
    {[ok |-> FALSE, recs |-> <<>>, schema |-> <<>>]} \cup
    {[ok |-> TRUE, recs |-> r, schema |-> sch] :
        r \in SeqsUpTo(RowUniverse, MaxCsvRows), sch \in SchemaUniverse}

(***************************************************************************)
(* Decisions of download_from_arcgis and main                              *)
(***************************************************************************)
\* mutant: "if count >= 0"
AcceptsZeroCount(resp) == resp.ok

\* if count > 0: break
CandidateAccepted(resp) == resp.ok /\ resp.n > 0

\* while offset < count
LoopContinues(off, total) == off < total

\* mutant: the loop also stops on a page shorter than the page size
StopsOnShortPage(recs) == Len(recs) < RECORDS_PER_REQUEST

\* if not records: break
PageStops(recs) == Len(recs) = 0

\* mutant: the check "if not all_records" is missing
AlwaysReturns(records) == "returned"

\* if not all_records: raise Exception(...)  else  return pd.DataFrame(...)
AdapterResult(records) == IF Len(records) = 0 THEN "raised" ELSE "returned"

\* mutant: the bulk CSV source is requested whatever the first source did
AlwaysFallback(outcome, frame) == TRUE

\* if df is None or df.empty
NeedFallback(outcome, frame) == outcome = "raised" \/ FrameEmpty(frame)

\* mutant: the failure of the last source is logged and an empty table saved
FallbackFailureSavesEmpty(file) ==
    [pc |-> "returned", status |-> 0, file |-> to_csv(EmptyFrame), wrote |-> TRUE]

\* except Exception: logger.error("Fallback download also failed"); sys.exit(1)
OnFallbackFailure(file) ==
    [pc |-> "exit", status |-> 1, file |-> file, wrote |-> FALSE]

\* mutant: the checks "if df.empty" are missing
NeverStopsOnEmpty(frame) == FALSE

\* if df.empty: ... sys.exit(1)   (after each filter step)
StopsOnEmpty(frame) == FrameEmpty(frame)

Request(kind, wh, off, ok, n) ==
    [req |-> kind, where |-> wh, offset |-> off, ok |-> ok, n |-> n]

(***************************************************************************)
(* State of download_grants_extract (download_grants_data.py)              *)
(***************************************************************************)
VARIABLES
    gpc,          \* probe (in the lookback loop), done (the call is over)
    attempt,      \* the loop variable of "for attempt in range(max_attempts)"
    target_date,  \* the date probed next, in days relative to today
    probes,       \* the probes made so far: <<date, HTTP status>>
    extract       \* what the call handed to its caller

(***************************************************************************)
(* State of main (download_grants_data.py) after the download              *)
(***************************************************************************)
VARIABLES
    relevant,         \* df after filter_grants
    cutoff_date,      \* datetime.now() - 30 days, as filter_active_grants read it
    active,           \* df after filter_active_grants
    federal_grants,   \* the frame map_to_output_columns built
    combined_grants,  \* static and federal grants, de-duplicated by title
    grantsFile        \* data/grants.csv

mainVars == <<relevant, cutoff_date, active, federal_grants, combined_grants,
              grantsFile>>

(***************************************************************************)
(* State of the scheduler shell (the __main__ block of either script)      *)
(***************************************************************************)
VARIABLES
    pipeline,     \* which script the process runs: crash or grants
    shell,        \* startup (main() of the first line), loop, ended
    clock,        \* iterations of "while True" slept through so far
    next_run,     \* the clock value at which the weekly job is due
    runs          \* the outcome of every run of main that has finished

schedVars == <<pipeline, shell, clock, next_run, runs>>

grantsVars == <<gpc, attempt, target_date, probes, extract, mainVars,
                schedVars>>

vars == <<crashVars, grantsVars>>

(***************************************************************************)
(* download_crash_data.py: main and download_from_arcgis                   *)
(***************************************************************************)
CrashInit ==
    /\ pc = "start"
    /\ status = 0
    /\ cand = 1
    /\ where_clause = NoWhere
    /\ count = 0
    /\ offset = 0
    /\ all_records = <<>>
    /\ requests = <<>>
    /\ primary = "pending"
    /\ csvRequested = FALSE
    /\ source = "none"
    /\ raw = EmptyFrame
    /\ dfIn = EmptyFrame
    /\ df = EmptyFrame
    /\ step = "none"
    /\ outputFile \in {NoFile, PreviousOutput}
    /\ fileAtStart = outputFile
    /\ wrote = FALSE

\* main up to the call of download_from_arcgis
StartMain ==
    /\ pc = "start"
    /\ pc' = "count"
    /\ UNCHANGED <<status, cand, where_clause, count, offset, all_records,
                   requests, primary, csvRequested, source, raw, dfIn, df,
                   step, outputFile, fileAtStart, wrote, grantsVars>>

\* the end of download_from_arcgis once the page loop is left normally
EndOfPaging(records) ==
    /\ pc' = "arcgis_end"
    /\ primary' = AdapterResult(records)

\* one iteration of "for where_clause in where_clauses"
CountCandidate ==
    /\ pc = "count"
    /\ \E resp \in CountResponses :
        /\ requests' = Append(requests,
                          Request("count", where_clauses[cand], 0, resp.ok, resp.n))
        /\ IF CandidateAccepted(resp)
           THEN /\ where_clause' = where_clauses[cand]
                /\ count' = resp.n
                /\ cand' = cand
                /\ IF LoopContinues(0, resp.n)
                   THEN pc' = "page" /\ primary' = primary
                   ELSE EndOfPaging(all_records)
           ELSE /\ UNCHANGED <<where_clause, count, primary>>
                /\ IF cand < Len(where_clauses)
                   THEN cand' = cand + 1 /\ pc' = pc
                   ELSE cand' = cand /\ pc' = "count_all"
    /\ UNCHANGED <<status, offset, all_records, csvRequested, source, raw,
                   dfIn, df, step, outputFile, fileAtStart, wrote, grantsVars>>

\* the else branch of the loop: count with "1=1"
CountAll ==
    /\ pc = "count_all"
    /\ \E resp \in CountResponses :
        /\ requests' = Append(requests,
                          Request("count", SelectAll, 0, resp.ok, resp.n))
        /\ where_clause' = SelectAll
        /\ IF ~resp.ok
           THEN /\ pc' = "arcgis_end"
                /\ primary' = "raised"
                /\ count' = count
           ELSE /\ count' = resp.n
                /\ IF LoopContinues(0, resp.n)
                   THEN pc' = "page" /\ primary' = primary
                   ELSE EndOfPaging(all_records)
    /\ UNCHANGED <<status, cand, offset, all_records, csvRequested, source,
                   raw, dfIn, df, step, outputFile, fileAtStart, wrote, grantsVars>>

\* one iteration of "while offset < count"
FetchPage ==
    /\ pc = "page"
    /\ \E resp \in PageResponses(MaxTotal - Len(all_records)) :
        /\ requests' = Append(requests,
                          Request("page", where_clause, offset, resp.ok,
                                  Len(resp.recs)))
        /\ IF ~resp.ok
           THEN /\ pc' = "arcgis_end"
                /\ primary' = "raised"
                /\ UNCHANGED <<all_records, offset>>
           ELSE IF PageStops(resp.recs)
           THEN /\ EndOfPaging(all_records)
                /\ UNCHANGED <<all_records, offset>>
           ELSE /\ all_records' = all_records \o resp.recs
                /\ offset' = offset + RECORDS_PER_REQUEST
                /\ IF LoopContinues(offset + RECORDS_PER_REQUEST, count)
                   THEN pc' = "page" /\ primary' = primary
                   ELSE EndOfPaging(all_records \o resp.recs)
    /\ UNCHANGED <<status, cand, where_clause, count, csvRequested, source,
                   raw, dfIn, df, step, outputFile, fileAtStart, wrote, grantsVars>>

\* main takes the outcome of download_from_arcgis: the frame built from
\* all_records, or the exception it logs; the call's locals are gone
AfterPrimary ==
    /\ pc = "arcgis_end"
    /\ \E sch \in SchemaUniverse :
        LET frame == IF primary = "returned" /\ Len(all_records) > 0
                     THEN MakeFrame(all_records, sch)
                     ELSE EmptyFrame
        IN  IF NeedFallback(primary, frame)
            THEN /\ pc' = "fallback"
                 /\ UNCHANGED <<df, raw, source>>
            ELSE /\ pc' = "juris"
                 /\ df' = frame
                 /\ raw' = frame
                 /\ source' = "arcgis"
    /\ cand' = 1
    /\ where_clause' = NoWhere
    /\ count' = 0
    /\ offset' = 0
    /\ all_records' = <<>>
    /\ requests' = <<>>
    /\ UNCHANGED <<status, primary, csvRequested, dfIn, step, outputFile,
                   fileAtStart, wrote, grantsVars>>

\* download_from_fallback and main's handling of its failure
Fallback ==
    /\ pc = "fallback"
    /\ csvRequested' = TRUE
    /\ \E resp \in CsvResponses :
        IF ~resp.ok
        THEN /\ pc' = OnFallbackFailure(outputFile).pc
             /\ status' = OnFallbackFailure(outputFile).status
             /\ outputFile' = OnFallbackFailure(outputFile).file
             /\ wrote' = OnFallbackFailure(outputFile).wrote
             /\ UNCHANGED <<df, raw, source>>
        ELSE /\ pc' = "juris"
             /\ df' = MakeFrame(resp.recs, resp.schema)
             /\ raw' = MakeFrame(resp.recs, resp.schema)
             /\ source' = "csv"
             /\ UNCHANGED <<status, outputFile, wrote>>
    /\ UNCHANGED <<cand, where_clause, count, offset, all_records, requests,
                   primary, dfIn, step, fileAtStart, grantsVars>>

\* a filter step of main followed by its "if df.empty: sys.exit(1)"; an
\* exception of the step is not caught and ends the process
ChainStep(name, result, nextpc) ==
    /\ step' = name
    /\ dfIn' = df
    /\ IF result.raised
       THEN pc' = "crashed" /\ status' = 1 /\ df' = df
       ELSE /\ df' = result.df
            /\ IF StopsOnEmpty(result.df)
               THEN pc' = "exit" /\ status' = 1
               ELSE pc' = nextpc /\ status' = status
    /\ UNCHANGED <<cand, where_clause, count, offset, all_records, requests,
                   primary, csvRequested, source, raw, outputFile,
                   fileAtStart, wrote, grantsVars>>

FilterJuris ==
    /\ pc = "juris"
    /\ ChainStep("juris", filter_henrico_county(df), "route")

FilterRoute ==
    /\ pc = "route"
    /\ ChainStep("route", filter_exclude_state_routes(df), "system")

FilterSystem ==
    /\ pc = "system"
    /\ ChainStep("system", filter_nonvdot_system(df), "save")

\* standardize_columns, to_csv and return 0
Save ==
    /\ pc = "save"
    /\ df' = standardize_columns(df)
    /\ outputFile' = to_csv(standardize_columns(df))
    /\ wrote' = TRUE
    /\ pc' = "returned"
    /\ UNCHANGED <<status, cand, where_clause, count, offset, all_records,
                   requests, primary, csvRequested, source, raw, dfIn, step,
                   fileAtStart, grantsVars>>

(***************************************************************************)
(* download_grants_data.py: download_grants_extract                        *)
(***************************************************************************)
MAX_LOOKBACK_DAYS == 7

GrantTables ==
    LET
        \* tables a dated archive may hold
        GrantRowSafety == [title  |-> StrCell(<<"S","S","4","A">>),
                           cfda   |-> StrCell(<<"2","0",".","2","0","5">>),
                           agency |-> StrCell(<<"D","O","T">>)]

        GrantRowParks == [title  |-> StrCell(<<"P","a","r","k","s">>),
                          cfda   |-> StrCell(<<"1","5",".","9","1","6">>),
                          agency |-> StrCell(<<"N","P","S">>)]

        GrantSchema == << <<"OpportunityTitle", "title">>, <<"CFDANumbers", "cfda">>,
                          <<"AgencyName", "agency">> >>
    IN  {MakeFrame(r, GrantSchema) :
            r \in SeqsUpTo({GrantRowSafety, GrantRowParks}, 1)}

\* HTTP outcomes of a probe that does not return: 404, another status, no
\* response at all (timeout, connection error; written 0), or a 200 whose
\* archive yields no table (not a ZIP, no member, no parser succeeds)
ProbeStatuses == {404, 500, 0, 200}

\* mutant: the exhausted lookback raises
ExhaustedRaises == Raised(EmptyFrame)

\* return pd.DataFrame() after "Could not download grants extract"
ExhaustedResult == Returned(EmptyFrame)

GrantsInit ==
    /\ gpc = "start"
    /\ attempt = 0
    /\ target_date = 0
    /\ probes = <<>>
    /\ extract = Returned(EmptyFrame)
    /\ relevant = EmptyFrame
    /\ cutoff_date = NoDate
    /\ active = EmptyFrame
    /\ federal_grants = EmptyFrame
    /\ combined_grants = EmptyFrame
    /\ grantsFile = NoFile

\* target_date = datetime.now() and entry of the loop
StartExtract ==
    /\ gpc = "start"
    /\ target_date' = 0
    /\ attempt' = 0
    /\ gpc' = IF 0 < MAX_LOOKBACK_DAYS THEN "probe" ELSE "done"
    /\ extract' = IF 0 < MAX_LOOKBACK_DAYS THEN extract ELSE ExhaustedResult
    /\ UNCHANGED <<probes, mainVars, schedVars, crashVars>>

\* an iteration that returns: status 200 and a member that parses
ProbeReturns ==
    /\ gpc = "probe"
    /\ \E table \in GrantTables :
        /\ probes' = Append(probes, <<target_date, 200>>)
        /\ extract' = Returned(table)
        /\ gpc' = "done"
    /\ UNCHANGED <<attempt, target_date, mainVars, schedVars, crashVars>>

\* an iteration that falls through to "target_date -= timedelta(days=1)":
\* 404, another status, an exception, or a 200 whose archive yields no table
ProbeFallsThrough ==
    /\ gpc = "probe"
    /\ \E st \in ProbeStatuses :
        /\ probes' = Append(probes, <<target_date, st>>)
        /\ target_date' = target_date - 1
        /\ attempt' = attempt + 1
        /\ IF attempt + 1 < MAX_LOOKBACK_DAYS
           THEN gpc' = "probe" /\ extract' = extract
           ELSE gpc' = "done" /\ extract' = ExhaustedResult
    /\ UNCHANGED <<mainVars, schedVars, crashVars>>

(***************************************************************************)
(* download_grants_data.py: the topic filters                              *)
(***************************************************************************)
\* str.lower()
StrLower(s) ==
    LET
        ToLowerChar(c) ==
            IF \E i \in 1..26 : UpperChars[i] = c
            THEN LowerChars[CHOOSE i \in 1..26 : UpperChars[i] = c]
            ELSE c
    IN  [i \in 1..Len(s) |-> ToLowerChar(s[i])]

ContainsEscaped(s, lit) ==
    LET
        \* re.search(re.escape(lit), s): every character of lit stands for itself
        EscapedAt(t, p, w) ==
            /\ p + Len(w) - 1 <= Len(t)
            /\ \A k \in 1..Len(w) : t[p + k - 1] = w[k]
    IN  \E p \in 1..(Len(s) + 1) : EscapedAt(s, p, lit)

\* re.search('|'.join(re.escape(x) for x in words), s)
ContainsAny(s, words) ==
    \E k \in 1..Len(words) : ContainsEscaped(s, words[k])

\* the same with case=False
ContainsAnyCI(s, words) ==
    \E k \in 1..Len(words) :
        ContainsEscaped(StrUpper(s), StrUpper(words[k]))

SAFETY_CFDA_NUMBERS ==
    << <<"2","0",".","6","0","0">>,
       <<"2","0",".","6","0","1">>,
       <<"2","0",".","6","0","2">>,
       <<"2","0",".","6","1","0">>,
       <<"2","0",".","2","0","5">>,
       <<"2","0",".","6","1","4">>,
       <<"2","0",".","6","1","6">>,
       <<"2","0",".","9","3","3">>,
       <<"2","0",".","9","3","4">>,
       <<"2","0",".","2","1","8">> >>

SAFETY_KEYWORDS ==
    << <<"t","r","a","f","f","i","c"," ","s","a","f","e","t","y">>,
       <<"h","i","g","h","w","a","y"," ","s","a","f","e","t","y">>,
       <<"p","e","d","e","s","t","r","i","a","n"," ","s","a","f","e","t",
         "y">>,
       <<"c","r","a","s","h"," ","r","e","d","u","c","t","i","o","n">>,
       <<"v","i","s","i","o","n"," ","z","e","r","o">>,
       <<"s","a","f","e"," ","r","o","u","t","e","s"," ","t","o"," ","s",
         "c","h","o","o","l">>,
       <<"i","n","t","e","r","s","e","c","t","i","o","n"," ","s","a","f",
         "e","t","y">>,
       <<"r","o","a","d"," ","s","a","f","e","t","y">>,
       <<"b","i","c","y","c","l","e"," ","s","a","f","e","t","y">>,
       <<"r","o","a","d","w","a","y"," ","s","a","f","e","t","y">>,
       <<"s","a","f","e"," ","s","t","r","e","e","t","s">> >>

SAFETY_AGENCIES ==
    << <<"N","H","T","S","A">>,
       <<"F","H","W","A">>,
       <<"D","O","T">>,
       <<"D","e","p","a","r","t","m","e","n","t"," ","o","f"," ","T","r",
         "a","n","s","p","o","r","t","a","t","i","o","n">>,
       <<"H","i","g","h","w","a","y"," ","A","d","m","i","n","i","s","t",
         "r","a","t","i","o","n">> >>

cfda_columns == <<"CFDANumbers", "CFDA_Numbers", "cfda_numbers", "CfdaNumber",
                  "CFDANumber", "CFDA", "cfda">>
agency_columns == <<"AgencyName", "Agency", "agency_name", "AGENCY_NAME",
                    "GrantorContactName", "FundingAgency", "AgencyCode">>
title_columns == <<"OpportunityTitle", "Title", "opportunity_title",
                   "OPPORTUNITY_TITLE", "Grant_Title", "ProjectTitle">>
desc_columns == <<"Description", "OpportunityDescription", "description",
                  "DESCRIPTION", "Synopsis", "Abstract", "Summary">>
date_columns == <<"CloseDate", "close_date", "CLOSE_DATE", "ApplicationDueDate",
                  "DueDate", "Deadline", "ResponseDate">>

\* a | b and a & b on boolean Series: aligned on the union of the labels, a
\* label one side lacks counts as False
SeriesOr(a, b) ==
    [l \in (DOMAIN a) \cup (DOMAIN b) |->
        (l \in DOMAIN a /\ a[l]) \/ (l \in DOMAIN b /\ b[l])]

SeriesAnd(a, b) ==
    [l \in (DOMAIN a) \cup (DOMAIN b) |->
        (l \in DOMAIN a /\ a[l]) /\ (l \in DOMAIN b /\ b[l])]

filter_by_cfda(grants) ==
    LET cfda_col == FirstPresent(cfda_columns, Columns(grants))
    IN  IF cfda_col # NoColumn
        THEN LET text == ColumnStr(grants, cfda_col)
             IN  [l \in IndexOf(grants) |-> ContainsAny(text[l], SAFETY_CFDA_NUMBERS)]
        ELSE NewMask(Len(grants.rows), FALSE)

\* the loop over agency_columns, from alias k on: every alias that is a
\* column of df is or-ed into mask (no break)
RECURSIVE AgencyLoop(_, _, _)
AgencyLoop(grants, mask, k) ==
    IF k > Len(agency_columns) THEN mask
    ELSE IF agency_columns[k] \in Columns(grants)
    THEN LET text == ColumnStr(grants, agency_columns[k])
             col_mask == [l \in IndexOf(grants) |->
                             ContainsAnyCI(text[l], SAFETY_AGENCIES)]
         IN  AgencyLoop(grants, InplaceOr(mask, col_mask), k + 1)
    ELSE AgencyLoop(grants, mask, k + 1)

filter_by_agency(grants) == AgencyLoop(grants, NewMask(Len(grants.rows), FALSE), 1)

filter_by_keywords(grants) ==
    LET
        \* df[col].astype(str).str.lower().str.contains(keyword_pattern)
        KeywordMask(frame, col) ==
            LET text == ColumnStr(frame, col)
            IN  [l \in IndexOf(frame) |-> ContainsAny(StrLower(text[l]), SAFETY_KEYWORDS)]
    IN  LET title_col == FirstPresent(title_columns, Columns(grants))
            desc_col == FirstPresent(desc_columns, Columns(grants))
            mask0 == NewMask(Len(grants.rows), FALSE)
            mask1 == IF title_col # NoColumn
                     THEN InplaceOr(mask0, KeywordMask(grants, title_col))
                     ELSE mask0
        IN  IF desc_col # NoColumn
            THEN InplaceOr(mask1, KeywordMask(grants, desc_col))
            ELSE mask1

\* mutant: the agency match alone is enough
AgencyAloneCombined(cfda_mask, agency_mask, keyword_mask) ==
    SeriesOr(cfda_mask, agency_mask)

\* combined_mask = cfda_mask | (agency_mask & keyword_mask)
CombinedMask(cfda_mask, agency_mask, keyword_mask) ==
    SeriesOr(cfda_mask, SeriesAnd(agency_mask, keyword_mask))

filter_grants(grants) ==
    FilterBy(grants, CombinedMask(filter_by_cfda(grants), filter_by_agency(grants),
                              filter_by_keywords(grants)))

(***************************************************************************)
(* Dates: datetime.now(), pd.to_datetime and strftime('%Y-%m-%d')          *)
(* A date is its proleptic Gregorian ordinal (date.toordinal()); a         *)
(* datetime adds tod, 0 for midnight sharp and 1 for any later time of day *)
(***************************************************************************)
DateCell(d) == [t |-> "date", s |-> <<>>, n |-> d]

NaT == [t |-> "nat", s |-> <<>>, n |-> 0]

\* Series.isna() on one cell
IsNa(v) == v.t \in {"nan", "nat"}

DaysBeforeYear(y) ==
    365 * (y - 1) + ((y - 1) \div 4) - ((y - 1) \div 100) + ((y - 1) \div 400)

DaysInMonth(y, m) ==
    LET
        IsLeap(yr) == (yr % 4 = 0 /\ yr % 100 # 0) \/ yr % 400 = 0
    IN  IF m = 2 THEN (IF IsLeap(y) THEN 29 ELSE 28)
        ELSE IF m \in {4, 6, 9, 11} THEN 30 ELSE 31

RECURSIVE DaysBeforeMonth(_, _)
DaysBeforeMonth(y, m) ==
    IF m = 1 THEN 0 ELSE DaysBeforeMonth(y, m - 1) + DaysInMonth(y, m - 1)

Ordinal(y, m, d) == DaysBeforeYear(y) + DaysBeforeMonth(y, m) + d

\* int() of a run of digits
RECURSIVE NumberOf(_)
NumberOf(chars) ==
    LET
        DigitVal(c) == (CHOOSE i \in 1..10 : DigitChars[i] = c) - 1
    IN  IF Len(chars) = 0 THEN 0
        ELSE 10 * NumberOf(SubSeq(chars, 1, Len(chars) - 1))
             + DigitVal(chars[Len(chars)])

\* the text is YYYY-MM-DD and names a day of the calendar
IsIsoDate(chars) ==
    /\ Len(chars) = 10
    /\ chars[5] = "-"
    /\ chars[8] = "-"
    /\ \A i \in {1, 2, 3, 4, 6, 7, 9, 10} : IsDigit(chars[i])
    /\ NumberOf(SubSeq(chars, 1, 4)) >= 1
    /\ NumberOf(SubSeq(chars, 6, 7)) \in 1..12
    /\ NumberOf(SubSeq(chars, 9, 10)) \in
          1..DaysInMonth(NumberOf(SubSeq(chars, 1, 4)),
                         NumberOf(SubSeq(chars, 6, 7)))

\* pd.to_datetime(..., errors='coerce') on one cell: an ISO date parses, a
\* Timestamp stays, a missing value and any text that is no date give NaT;
\* an integer counts nanoseconds from 1970-01-01 and stays on that day.
\* Texts in other date formats are not among the inputs of the model.
to_datetime(v) ==
    CASE v.t = "date" -> v
      [] v.t = "int"  -> DateCell(Ordinal(1970, 1, 1))
      [] v.t = "str" /\ IsIsoDate(v.s) ->
            DateCell(Ordinal(NumberOf(SubSeq(v.s, 1, 4)),
                             NumberOf(SubSeq(v.s, 6, 7)),
                             NumberOf(SubSeq(v.s, 9, 10))))
      [] OTHER -> NaT

\* zero-padded decimal of width w
RECURSIVE Pad(_, _)
Pad(k, w) ==
    IF w = 0 THEN <<>>
    ELSE Pad(k \div 10, w - 1) \o <<DigitChars[(k % 10) + 1]>>

YearOf(d) ==
    CHOOSE y \in (d \div 366)..((d \div 365) + 1) :
        DaysBeforeYear(y) < d /\ d <= DaysBeforeYear(y + 1)

\* strftime('%Y-%m-%d')
FormatDate(d) ==
    LET
        MonthOf(ord) ==
            LET y == YearOf(ord)
                doy == ord - DaysBeforeYear(y)
            IN  CHOOSE m \in 1..12 :
                    /\ DaysBeforeMonth(y, m) < doy
                    /\ doy <= DaysBeforeMonth(y, m) + DaysInMonth(y, m)
    IN  LET y == YearOf(d)
            m == MonthOf(d)
            dom == d - DaysBeforeYear(y) - DaysBeforeMonth(y, m)
        IN  Pad(y, 4) \o <<"-">> \o Pad(m, 2) \o <<"-">> \o Pad(dom, 2)

\* Series.dt.strftime on one cell: NaT becomes a missing value
StrfCell(v) == IF v.t = "date" THEN StrCell(FormatDate(v.n)) ELSE NaN

\* the readings datetime.now() may give during a run
Nows == {[day |-> Ordinal(2026, 11, 3), tod |-> h] : h \in {0, 1}}

\* now - timedelta(days=30)
CutoffOf(now) == [day |-> now.day - 30, tod |-> now.tod]

\* Timestamp >= cutoff, for a Timestamp at midnight
OnOrAfter(v, cutoff) ==
    v.n > cutoff.day \/ (v.n = cutoff.day /\ cutoff.tod = 0)

(***************************************************************************)
(* download_grants_data.py: filter_active_grants, map_to_output_columns    *)
(***************************************************************************)
\* grants[col] = pd.to_datetime(grants[col], errors='coerce') and
\* grants[col] = grants[col].dt.strftime('%Y-%m-%d'): one column rewritten
\* cell by cell
WithColumn(grants, col, how) ==
    [cols |-> grants.cols,
     rows |-> [i \in 1..Len(grants.rows) |->
                 [idx  |-> grants.rows[i].idx,
                  vals |-> [j \in 1..Len(grants.cols) |->
                              IF j # ColPos(grants, col)
                              THEN grants.rows[i].vals[j]
                              ELSE IF how = "to_datetime"
                              THEN to_datetime(grants.rows[i].vals[j])
                              ELSE StrfCell(grants.rows[i].vals[j])]]]]

\* mutant: a close date that does not parse drops the record
DropsUnparsed(v, cutoff) == (~IsNa(v)) /\ OnOrAfter(v, cutoff)

\* mask = (df[date_col].isna()) | (df[date_col] >= cutoff_date), one cell
ActiveMask(v, cutoff) == IsNa(v) \/ OnOrAfter(v, cutoff)

filter_active_grants(grants, now) ==
    LET
        \* the cell of column col in the row labelled l
        CellAt(frame, l, col) ==
            LET r == CHOOSE i \in 1..Len(frame.rows) : frame.rows[i].idx = l
            IN  frame.rows[r].vals[ColPos(frame, col)]
    IN  LET date_col == FirstPresent(date_columns, Columns(grants))
            parsed == WithColumn(grants, date_col, "to_datetime")
            mask == [l \in IndexOf(parsed) |->
                        ActiveMask(CellAt(parsed, l, date_col), CutoffOf(now))]
        IN  IF date_col # NoColumn THEN BoolIndex(parsed, mask) ELSE grants

\* column_mappings, in the order of the dict
column_mappings ==
    << <<"OpportunityID", "grant_id">>,
       <<"OpportunityNumber", "grant_id">>,
       <<"OpportunityTitle", "title">>,
       <<"AgencyName", "agency">>,
       <<"CFDANumbers", "cfda_number">>,
       <<"Description", "description">>,
       <<"Synopsis", "description">>,
       <<"CloseDate", "close_date">>,
       <<"PostDate", "post_date">>,
       <<"AwardCeiling", "award_ceiling">>,
       <<"AwardFloor", "award_floor">>,
       <<"AdditionalInformationURL", "application_url">>,
       <<"GrantorContactEmail", "contact_info">> >>

NameLower(c) ==
    LET
        \* str.lower() of the column names of the mapping and of the model's tables
        LowerNames ==
            << <<"OpportunityID", "opportunityid">>,
               <<"OPPORTUNITYID", "opportunityid">>,
               <<"OpportunityNumber", "opportunitynumber">>,
               <<"OpportunityTitle", "opportunitytitle">>,
               <<"AgencyName", "agencyname">>,
               <<"CFDANumbers", "cfdanumbers">>,
               <<"Description", "description">>,
               <<"Synopsis", "synopsis">>,
               <<"CloseDate", "closedate">>,
               <<"PostDate", "postdate">>,
               <<"AwardCeiling", "awardceiling">>,
               <<"AwardFloor", "awardfloor">>,
               <<"AdditionalInformationURL", "additionalinformationurl">>,
               <<"GrantorContactEmail", "grantorcontactemail">>,
               <<"Title", "title">>,
               <<"Agency", "agency">>,
               <<"AgencyCode", "agencycode">>,
               <<"CFDA", "cfda">>,
               <<"CLOSE_DATE", "close_date">>,
               <<"DueDate", "duedate">>,
               <<"FundingCategory", "fundingcategory">> >>
    IN  IF \E k \in 1..Len(LowerNames) : LowerNames[k][1] = c
        THEN LowerNames[CHOOSE k \in 1..Len(LowerNames) : LowerNames[k][1] = c][2]
        ELSE c

\* new_col in output_data
InOutput(output_data, new_col) ==
    \E i \in 1..Len(output_data) : output_data[i][1] = new_col

\* the loop over column_mappings.items(), from entry k on; output_data is
\* the dict built so far, as <<output column, column of the frame>> pairs
RECURSIVE MappingLoop(_, _, _)
MappingLoop(grants, output_data, k) ==
    IF k > Len(column_mappings) THEN output_data
    ELSE LET orig_col == column_mappings[k][1]
             new_col == column_mappings[k][2]
             same == {j \in 1..Len(grants.cols) :
                         NameLower(grants.cols[j]) = NameLower(orig_col)}
             first == CHOOSE j \in same : \A i \in same : j <= i
         IN  IF orig_col \in Columns(grants) /\ ~InOutput(output_data, new_col)
             THEN MappingLoop(grants,
                              Append(output_data, <<new_col, orig_col>>), k + 1)
             ELSE IF same # {} /\ ~InOutput(output_data, new_col)
             THEN MappingLoop(grants,
                              Append(output_data, <<new_col, grants.cols[first]>>),
                              k + 1)
             ELSE MappingLoop(grants, output_data, k + 1)

\* the defaults added when the column is missing, in the order of the code
output_defaults ==
    << <<"program_type", StrCell(<<"F","e","d","e","r","a","l">>)>>,
       <<"federal_share_pct", NaN>>,
       <<"emphasis_areas", StrCell(<<"S","a","f","e","t","y">>)>>,
       <<"eligible_activities", NaN>>,
       <<"requires_crash_data", StrCell(<<"N">>)>>,
       <<"status", StrCell(<<"O","p","e","n">>)>>,
       <<"virginia_specific", StrCell(<<"N">>)>> >>

\* frame[col] = value when col is not a column yet
RECURSIVE AddMissing(_, _)
AddMissing(grants, defaults) ==
    IF Len(defaults) = 0 THEN grants
    ELSE IF Head(defaults)[1] \in Columns(grants)
    THEN AddMissing(grants, Tail(defaults))
    ELSE AddMissing(
            [cols |-> Append(grants.cols, Head(defaults)[1]),
             rows |-> [i \in 1..Len(grants.rows) |->
                         [idx  |-> grants.rows[i].idx,
                          vals |-> Append(grants.rows[i].vals,
                                          Head(defaults)[2])]]],
            Tail(defaults))

\* pd.DataFrame(output_data): the chosen columns under their output names;
\* an empty dict gives a frame without rows, and the defaults then add
\* columns but no row
map_to_output_columns(grants) ==
    LET output_data == MappingLoop(grants, <<>>, 1)
        df_output ==
            [cols |-> [j \in 1..Len(output_data) |-> output_data[j][1]],
             rows |-> IF Len(output_data) = 0 THEN <<>>
                      ELSE [i \in 1..Len(grants.rows) |->
                              [idx  |-> grants.rows[i].idx,
                               vals |-> [j \in 1..Len(output_data) |->
                                   grants.rows[i].vals[
                                       ColPos(grants, output_data[j][2])]]]]]
    IN  AddMissing(df_output, output_defaults)

(***************************************************************************)
(* download_grants_data.py: the Static Supplement Set                      *)
(***************************************************************************)
Static_VA_SS4A_FY2026 ==
    [grant_id |-> StrCell(<<"V","A","-","S","S","4","A","-","F","Y","2","0",
                            "2","6">>),
     title |-> StrCell(<<"S","a","f","e"," ","S","t","r","e","e","t","s",
                         " ","a","n","d"," ","R","o","a","d","s"," ","f",
                         "o","r"," ","A","l","l"," ","(","S","S","4","A",
                         ")"," ","F","Y","2","0","2","6">>),
     agency |-> StrCell(<<"U","S","D","O","T">>),
     cfda_number |-> StrCell(<<"2","0",".","6","1","6">>),
     program_type |-> StrCell(<<"S","S","4","A">>),
     close_date |-> StrCell(<<"2","0","2","6","-","0","4","-","1","5">>),
     post_date |-> StrCell(<<"2","0","2","6","-","0","2","-","0","1">>),
     federal_share_pct |-> IntCell(80),
     award_ceiling |-> IntCell(50000000),
     award_floor |-> IntCell(100000),
     emphasis_areas |-> StrCell(<<"V","R","U","|","F","a","t","a","l","|",
                                  "S","e","r","i","o","u","s"," ","I","n",
                                  "j","u","r","y","|","E","q","u","i","t",
                                  "y","|","V","i","s","i","o","n"," ","Z",
                                  "e","r","o">>),
     eligible_activities |-> StrCell(<<"C","o","n","s","t","r","u","c","t",
                                       "i","o","n","|","P","l","a","n","n",
                                       "i","n","g">>),
     requires_crash_data |-> StrCell(<<"Y">>),
     application_url |-> StrCell(<<"h","t","t","p","s",":","/","/","w","w",
                                   "w",".","t","r","a","n","s","p","o","r",
                                   "t","a","t","i","o","n",".","g","o","v",
                                   "/","g","r","a","n","t","s","/","S","S",
                                   "4","A">>),
     contact_info |-> StrCell(<<"S","S","4","A","@","d","o","t",".","g","o",
                                "v">>),
     status |-> StrCell(<<"F","o","r","e","c","a","s","t","e","d">>),
     virginia_specific |-> StrCell(<<"N">>),
     description |-> StrCell(<<"G","r","a","n","t","s"," ","f","o","r"," ",
                               "A","c","t","i","o","n"," ","P","l","a","n",
                               "s"," ","a","n","d"," ","I","m","p","l","e",
                               "m","e","n","t","a","t","i","o","n"," ","p",
                               "r","o","j","e","c","t","s"," ","t","o"," ",
                               "p","r","e","v","e","n","t"," ","r","o","a",
                               "d","w","a","y"," ","d","e","a","t","h","s",
                               " ","a","n","d"," ","s","e","r","i","o","u",
                               "s"," ","i","n","j","u","r","i","e","s",".",
                               " ","F","o","c","u","s"," ","o","n"," ","v",
                               "u","l","n","e","r","a","b","l","e"," ","r",
                               "o","a","d"," ","u","s","e","r","s",".">>)]

VIRGINIA_STATIC_GRANTS ==
    LET
        Static_VA_HSIP_FY2027 ==
            [grant_id |-> StrCell(<<"V","A","-","H","S","I","P","-","F","Y","2","0",
                                    "2","7">>),
             title |-> StrCell(<<"H","i","g","h","w","a","y"," ","S","a","f","e",
                                 "t","y"," ","I","m","p","r","o","v","e","m","e",
                                 "n","t"," ","P","r","o","g","r","a","m"," ","(",
                                 "H","S","I","P",")"," ","F","Y","2","0","2","7">>),
             agency |-> StrCell(<<"V","D","O","T">>),
             cfda_number |-> StrCell(<<"2","0",".","2","0","5">>),
             program_type |-> StrCell(<<"H","S","I","P">>),
             close_date |-> StrCell(<<"2","0","2","6","-","1","0","-","3","1">>),
             post_date |-> StrCell(<<"2","0","2","6","-","0","8","-","0","1">>),
             federal_share_pct |-> IntCell(90),
             award_ceiling |-> NaN,
             award_floor |-> NaN,
             emphasis_areas |-> StrCell(<<"I","n","t","e","r","s","e","c","t","i",
                                          "o","n","|","S","y","s","t","e","m","i",
                                          "c","|","V","R","U","|","C","M","F","-",
                                          "B","a","s","e","d">>),
             eligible_activities |-> StrCell(<<"C","o","n","s","t","r","u","c","t",
                                               "i","o","n","|","P","l","a","n","n",
                                               "i","n","g">>),
             requires_crash_data |-> StrCell(<<"Y">>),
             application_url |-> StrCell(<<"h","t","t","p","s",":","/","/","w","w",
                                           "w",".","v","i","r","g","i","n","i","a",
                                           "d","o","t",".","o","r","g","/","b","u",
                                           "s","i","n","e","s","s","/","t","e","d",
                                           "_","a","p","p","_","p","r","o",".","a",
                                           "s","p">>),
             contact_info |-> StrCell(<<"V","D","O","T"," ","T","r","a","f","f","i",
                                        "c"," ","E","n","g","i","n","e","e","r","i",
                                        "n","g"," ","D","i","v","i","s","i","o",
                                        "n">>),
             status |-> StrCell(<<"F","o","r","e","c","a","s","t","e","d">>),
             virginia_specific |-> StrCell(<<"Y">>),
             description |-> StrCell(<<"V","i","r","g","i","n","i","a"," ","f","e",
                                       "d","e","r","a","l","l","y","-","f","u","n",
                                       "d","e","d"," ","p","r","o","g","r","a","m",
                                       " ","f","o","r"," ","d","a","t","a","-","d",
                                       "r","i","v","e","n"," ","s","a","f","e","t",
                                       "y"," ","i","m","p","r","o","v","e","m","e",
                                       "n","t","s"," ","o","n"," ","p","u","b","l",
                                       "i","c"," ","r","o","a","d","s","."," ","R",
                                       "e","q","u","i","r","e","s"," ","b","e","n",
                                       "e","f","i","t","-","c","o","s","t"," ","a",
                                       "n","a","l","y","s","i","s"," ","a","n","d",
                                       " ","C","M","F"," ","d","o","c","u","m","e",
                                       "n","t","a","t","i","o","n",".">>)]

        Static_VA_402_FY2027 ==
            [grant_id |-> StrCell(<<"V","A","-","4","0","2","-","F","Y","2","0","2",
                                    "7">>),
             title |-> StrCell(<<"N","H","T","S","A"," ","S","e","c","t","i","o",
                                 "n"," ","4","0","2"," ","H","i","g","h","w","a",
                                 "y"," ","S","a","f","e","t","y"," ","G","r","a",
                                 "n","t"," ","F","Y","2","0","2","7">>),
             agency |-> StrCell(<<"V","A","H","S","O">>),
             cfda_number |-> StrCell(<<"2","0",".","6","0","0">>),
             program_type |-> StrCell(<<"4","0","2">>),
             close_date |-> StrCell(<<"2","0","2","6","-","0","2","-","2","8">>),
             post_date |-> StrCell(<<"2","0","2","5","-","1","2","-","0","1">>),
             federal_share_pct |-> IntCell(100),
             award_ceiling |-> NaN,
             award_floor |-> NaN,
             emphasis_areas |-> StrCell(<<"S","p","e","e","d","|","D","i","s","t",
                                          "r","a","c","t","e","d","|","P","e","d",
                                          "e","s","t","r","i","a","n","|","I","m",
                                          "p","a","i","r","e","d","|","O","c","c",
                                          "u","p","a","n","t"," ","P","r","o","t",
                                          "e","c","t","i","o","n">>),
             eligible_activities |-> StrCell(<<"E","n","f","o","r","c","e","m","e",
                                               "n","t","|","E","d","u","c","a","t",
                                               "i","o","n","|","P","l","a","n","n",
                                               "i","n","g">>),
             requires_crash_data |-> StrCell(<<"Y">>),
             application_url |-> StrCell(<<"h","t","t","p","s",":","/","/","w","w",
                                           "w",".","d","m","v",".","v","i","r","g",
                                           "i","n","i","a",".","g","o","v","/","s",
                                           "a","f","e","t","y","/","g","r","a","n",
                                           "t","s","-","m","a","n","a","g","e","m",
                                           "e","n","t">>),
             contact_info |-> StrCell(<<"V","i","r","g","i","n","i","a"," ","H","i",
                                        "g","h","w","a","y"," ","S","a","f","e","t",
                                        "y"," ","O","f","f","i","c","e">>),
             status |-> StrCell(<<"F","o","r","e","c","a","s","t","e","d">>),
             virginia_specific |-> StrCell(<<"Y">>),
             description |-> StrCell(<<"F","o","r","m","u","l","a"," ","g","r","a",
                                       "n","t","s"," ","f","o","r"," ","h","i","g",
                                       "h","w","a","y"," ","s","a","f","e","t","y",
                                       " ","p","r","o","g","r","a","m","s"," ","i",
                                       "n","c","l","u","d","i","n","g"," ","e","n",
                                       "f","o","r","c","e","m","e","n","t",","," ",
                                       "e","d","u","c","a","t","i","o","n",","," ",
                                       "a","n","d"," ","p","u","b","l","i","c"," ",
                                       "a","w","a","r","e","n","e","s","s"," ","c",
                                       "a","m","p","a","i","g","n","s",".">>)]

        Static_VA_405B_FY2027 ==
            [grant_id |-> StrCell(<<"V","A","-","4","0","5","B","-","F","Y","2","0",
                                    "2","7">>),
             title |-> StrCell(<<"N","H","T","S","A"," ","S","e","c","t","i","o",
                                 "n"," ","4","0","5","b"," ","O","c","c","u","p",
                                 "a","n","t"," ","P","r","o","t","e","c","t","i",
                                 "o","n"," ","F","Y","2","0","2","7">>),
             agency |-> StrCell(<<"V","A","H","S","O">>),
             cfda_number |-> StrCell(<<"2","0",".","6","0","2">>),
             program_type |-> StrCell(<<"4","0","5","b">>),
             close_date |-> StrCell(<<"2","0","2","6","-","0","2","-","2","8">>),
             post_date |-> StrCell(<<"2","0","2","5","-","1","2","-","0","1">>),
             federal_share_pct |-> IntCell(100),
             award_ceiling |-> NaN,
             award_floor |-> NaN,
             emphasis_areas |-> StrCell(<<"O","c","c","u","p","a","n","t"," ","P",
                                          "r","o","t","e","c","t","i","o","n","|",
                                          "S","e","a","t","b","e","l","t","|","C",
                                          "h","i","l","d"," ","R","e","s","t","r",
                                          "a","i","n","t">>),
             eligible_activities |-> StrCell(<<"E","n","f","o","r","c","e","m","e",
                                               "n","t","|","E","d","u","c","a","t",
                                               "i","o","n">>),
             requires_crash_data |-> StrCell(<<"Y">>),
             application_url |-> StrCell(<<"h","t","t","p","s",":","/","/","w","w",
                                           "w",".","d","m","v",".","v","i","r","g",
                                           "i","n","i","a",".","g","o","v","/","s",
                                           "a","f","e","t","y","/","g","r","a","n",
                                           "t","s","-","m","a","n","a","g","e","m",
                                           "e","n","t">>),
             contact_info |-> StrCell(<<"V","i","r","g","i","n","i","a"," ","H","i",
                                        "g","h","w","a","y"," ","S","a","f","e","t",
                                        "y"," ","O","f","f","i","c","e">>),
             status |-> StrCell(<<"F","o","r","e","c","a","s","t","e","d">>),
             virginia_specific |-> StrCell(<<"Y">>),
             description |-> StrCell(<<"I","n","c","e","n","t","i","v","e"," ","g",
                                       "r","a","n","t","s"," ","f","o","r"," ","o",
                                       "c","c","u","p","a","n","t"," ","p","r","o",
                                       "t","e","c","t","i","o","n"," ","p","r","o",
                                       "g","r","a","m","s"," ","i","n","c","l","u",
                                       "d","i","n","g"," ","C","l","i","c","k"," ",
                                       "I","t"," ","o","r"," ","T","i","c","k","e",
                                       "t"," ","e","n","f","o","r","c","e","m","e",
                                       "n","t"," ","a","n","d"," ","c","h","i","l",
                                       "d"," ","p","a","s","s","e","n","g","e","r",
                                       " ","s","a","f","e","t","y",".">>)]

        Static_VA_405C_FY2027 ==
            [grant_id |-> StrCell(<<"V","A","-","4","0","5","C","-","F","Y","2","0",
                                    "2","7">>),
             title |-> StrCell(<<"N","H","T","S","A"," ","S","e","c","t","i","o",
                                 "n"," ","4","0","5","c"," ","T","r","a","f","f",
                                 "i","c"," ","R","e","c","o","r","d","s"," ","F",
                                 "Y","2","0","2","7">>),
             agency |-> StrCell(<<"V","A","H","S","O">>),
             cfda_number |-> StrCell(<<"2","0",".","6","1","0">>),
             program_type |-> StrCell(<<"4","0","5","c">>),
             close_date |-> StrCell(<<"2","0","2","6","-","0","2","-","2","8">>),
             post_date |-> StrCell(<<"2","0","2","5","-","1","2","-","0","1">>),
             federal_share_pct |-> IntCell(100),
             award_ceiling |-> NaN,
             award_floor |-> NaN,
             emphasis_areas |-> StrCell(<<"T","r","a","f","f","i","c"," ","R","e",
                                          "c","o","r","d","s","|","D","a","t","a",
                                          " ","Q","u","a","l","i","t","y","|","C",
                                          "r","a","s","h"," ","D","a","t","a">>),
             eligible_activities |-> StrCell(<<"P","l","a","n","n","i","n","g","|",
                                               "D","a","t","a"," ","S","y","s","t",
                                               "e","m","s">>),
             requires_crash_data |-> StrCell(<<"N">>),
             application_url |-> StrCell(<<"h","t","t","p","s",":","/","/","w","w",
                                           "w",".","d","m","v",".","v","i","r","g",
                                           "i","n","i","a",".","g","o","v","/","s",
                                           "a","f","e","t","y","/","g","r","a","n",
                                           "t","s","-","m","a","n","a","g","e","m",
                                           "e","n","t">>),
             contact_info |-> StrCell(<<"V","i","r","g","i","n","i","a"," ","H","i",
                                        "g","h","w","a","y"," ","S","a","f","e","t",
                                        "y"," ","O","f","f","i","c","e">>),
             status |-> StrCell(<<"F","o","r","e","c","a","s","t","e","d">>),
             virginia_specific |-> StrCell(<<"Y">>),
             description |-> StrCell(<<"G","r","a","n","t","s"," ","t","o"," ","i",
                                       "m","p","r","o","v","e"," ","t","r","a","f",
                                       "f","i","c"," ","r","e","c","o","r","d","s",
                                       " ","s","y","s","t","e","m","s"," ","i","n",
                                       "c","l","u","d","i","n","g"," ","c","r","a",
                                       "s","h",","," ","r","o","a","d","w","a","y",
                                       ","," ","c","i","t","a","t","i","o","n",",",
                                       " ","a","n","d"," ","i","n","j","u","r","y",
                                       " ","s","u","r","v","e","i","l","l","a","n",
                                       "c","e"," ","d","a","t","a",".">>)]

        Static_VA_405D_FY2027 ==
            [grant_id |-> StrCell(<<"V","A","-","4","0","5","D","-","F","Y","2","0",
                                    "2","7">>),
             title |-> StrCell(<<"N","H","T","S","A"," ","S","e","c","t","i","o",
                                 "n"," ","4","0","5","d"," ","I","m","p","a","i",
                                 "r","e","d"," ","D","r","i","v","i","n","g"," ",
                                 "F","Y","2","0","2","7">>),
             agency |-> StrCell(<<"V","A","H","S","O">>),
             cfda_number |-> StrCell(<<"2","0",".","6","0","1">>),
             program_type |-> StrCell(<<"4","0","5","d">>),
             close_date |-> StrCell(<<"2","0","2","6","-","0","2","-","2","8">>),
             post_date |-> StrCell(<<"2","0","2","5","-","1","2","-","0","1">>),
             federal_share_pct |-> IntCell(100),
             award_ceiling |-> NaN,
             award_floor |-> NaN,
             emphasis_areas |-> StrCell(<<"I","m","p","a","i","r","e","d","|","D",
                                          "U","I","|","A","l","c","o","h","o","l",
                                          "|","D","r","u","g","s">>),
             eligible_activities |-> StrCell(<<"E","n","f","o","r","c","e","m","e",
                                               "n","t","|","E","d","u","c","a","t",
                                               "i","o","n","|","C","o","u","r","t",
                                               "s">>),
             requires_crash_data |-> StrCell(<<"Y">>),
             application_url |-> StrCell(<<"h","t","t","p","s",":","/","/","w","w",
                                           "w",".","d","m","v",".","v","i","r","g",
                                           "i","n","i","a",".","g","o","v","/","s",
                                           "a","f","e","t","y","/","g","r","a","n",
                                           "t","s","-","m","a","n","a","g","e","m",
                                           "e","n","t">>),
             contact_info |-> StrCell(<<"V","i","r","g","i","n","i","a"," ","H","i",
                                        "g","h","w","a","y"," ","S","a","f","e","t",
                                        "y"," ","O","f","f","i","c","e">>),
             status |-> StrCell(<<"F","o","r","e","c","a","s","t","e","d">>),
             virginia_specific |-> StrCell(<<"Y">>),
             description |-> StrCell(<<"I","n","c","e","n","t","i","v","e"," ","g",
                                       "r","a","n","t","s"," ","f","o","r"," ","i",
                                       "m","p","a","i","r","e","d"," ","d","r","i",
                                       "v","i","n","g"," ","c","o","u","n","t","e",
                                       "r","m","e","a","s","u","r","e","s"," ","i",
                                       "n","c","l","u","d","i","n","g"," ","h","i",
                                       "g","h","-","v","i","s","i","b","i","l","i",
                                       "t","y"," ","e","n","f","o","r","c","e","m",
                                       "e","n","t"," ","a","n","d"," ","D","U","I",
                                       " ","c","o","u","r","t","s",".">>)]

        Static_FED_RAISE_FY2026 ==
            [grant_id |-> StrCell(<<"F","E","D","-","R","A","I","S","E","-","F","Y",
                                    "2","0","2","6">>),
             title |-> StrCell(<<"R","A","I","S","E"," ","D","i","s","c","r","e",
                                 "t","i","o","n","a","r","y"," ","G","r","a","n",
                                 "t","s"," ","F","Y","2","0","2","6">>),
             agency |-> StrCell(<<"U","S","D","O","T">>),
             cfda_number |-> StrCell(<<"2","0",".","9","3","3">>),
             program_type |-> StrCell(<<"R","A","I","S","E">>),
             close_date |-> StrCell(<<"2","0","2","6","-","0","4","-","1","5">>),
             post_date |-> StrCell(<<"2","0","2","6","-","0","2","-","0","1">>),
             federal_share_pct |-> IntCell(80),
             award_ceiling |-> IntCell(45000000),
             award_floor |-> IntCell(5000000),
             emphasis_areas |-> StrCell(<<"I","n","f","r","a","s","t","r","u","c",
                                          "t","u","r","e","|","S","a","f","e","t",
                                          "y","|","E","q","u","i","t","y","|","C",
                                          "l","i","m","a","t","e">>),
             eligible_activities |-> StrCell(<<"C","o","n","s","t","r","u","c","t",
                                               "i","o","n","|","P","l","a","n","n",
                                               "i","n","g">>),
             requires_crash_data |-> StrCell(<<"Y">>),
             application_url |-> StrCell(<<"h","t","t","p","s",":","/","/","w","w",
                                           "w",".","t","r","a","n","s","p","o","r",
                                           "t","a","t","i","o","n",".","g","o","v",
                                           "/","g","r","a","n","t","s","/","r","a",
                                           "i","s","e","-","g","r","a","n","t","s",
                                           "-","7","0","2","7","0","2">>),
             contact_info |-> StrCell(<<"R","A","I","S","E","g","r","a","n","t","s",
                                        "@","d","o","t",".","g","o","v">>),
             status |-> StrCell(<<"F","o","r","e","c","a","s","t","e","d">>),
             virginia_specific |-> StrCell(<<"N">>),
             description |-> StrCell(<<"D","i","s","c","r","e","t","i","o","n","a",
                                       "r","y"," ","g","r","a","n","t"," ","p","r",
                                       "o","g","r","a","m"," ","f","o","r"," ","s",
                                       "u","r","f","a","c","e"," ","t","r","a","n",
                                       "s","p","o","r","t","a","t","i","o","n"," ",
                                       "i","n","f","r","a","s","t","r","u","c","t",
                                       "u","r","e"," ","p","r","o","j","e","c","t",
                                       "s"," ","w","i","t","h"," ","s","i","g","n",
                                       "i","f","i","c","a","n","t"," ","l","o","c",
                                       "a","l"," ","o","r"," ","r","e","g","i","o",
                                       "n","a","l"," ","i","m","p","a","c","t",".">>)]

        Static_FED_INFRA_FY2026 ==
            [grant_id |-> StrCell(<<"F","E","D","-","I","N","F","R","A","-","F","Y",
                                    "2","0","2","6">>),
             title |-> StrCell(<<"I","N","F","R","A"," ","D","i","s","c","r","e",
                                 "t","i","o","n","a","r","y"," ","G","r","a","n",
                                 "t","s"," ","F","Y","2","0","2","6">>),
             agency |-> StrCell(<<"U","S","D","O","T">>),
             cfda_number |-> StrCell(<<"2","0",".","9","3","4">>),
             program_type |-> StrCell(<<"I","N","F","R","A">>),
             close_date |-> StrCell(<<"2","0","2","6","-","0","5","-","1","5">>),
             post_date |-> StrCell(<<"2","0","2","6","-","0","2","-","0","1">>),
             federal_share_pct |-> IntCell(60),
             award_ceiling |-> IntCell(100000000),
             award_floor |-> IntCell(5000000),
             emphasis_areas |-> StrCell(<<"I","n","f","r","a","s","t","r","u","c",
                                          "t","u","r","e","|","F","r","e","i","g",
                                          "h","t","|","S","a","f","e","t","y">>),
             eligible_activities |-> StrCell(<<"C","o","n","s","t","r","u","c","t",
                                               "i","o","n">>),
             requires_crash_data |-> StrCell(<<"Y">>),
             application_url |-> StrCell(<<"h","t","t","p","s",":","/","/","w","w",
                                           "w",".","t","r","a","n","s","p","o","r",
                                           "t","a","t","i","o","n",".","g","o","v",
                                           "/","g","r","a","n","t","s","/","i","n",
                                           "f","r","a","-","g","r","a","n","t","s",
                                           "-","7","0","2","7","0","2">>),
             contact_info |-> StrCell(<<"I","N","F","R","A","g","r","a","n","t","s",
                                        "@","d","o","t",".","g","o","v">>),
             status |-> StrCell(<<"F","o","r","e","c","a","s","t","e","d">>),
             virginia_specific |-> StrCell(<<"N">>),
             description |-> StrCell(<<"I","n","f","r","a","s","t","r","u","c","t",
                                       "u","r","e"," ","f","o","r"," ","R","e","b",
                                       "u","i","l","d","i","n","g"," ","A","m","e",
                                       "r","i","c","a"," ","g","r","a","n","t","s",
                                       " ","f","o","r"," ","h","i","g","h","w","a",
                                       "y"," ","a","n","d"," ","f","r","e","i","g",
                                       "h","t"," ","p","r","o","j","e","c","t","s",
                                       " ","o","f"," ","n","a","t","i","o","n","a",
                                       "l"," ","o","r"," ","r","e","g","i","o","n",
                                       "a","l"," ","s","i","g","n","i","f","i","c",
                                       "a","n","c","e",".">>)]
    IN  <<Static_VA_HSIP_FY2027, Static_VA_SS4A_FY2026, Static_VA_402_FY2027,
          Static_VA_405B_FY2027, Static_VA_405C_FY2027, Static_VA_405D_FY2027,
          Static_FED_RAISE_FY2026, Static_FED_INFRA_FY2026>>

\* all_columns of main; the keys of every static record, in the same order
all_columns ==
    <<"grant_id", "title", "agency", "cfda_number", "program_type",
      "close_date", "post_date", "federal_share_pct", "award_ceiling",
      "award_floor", "emphasis_areas", "eligible_activities",
      "requires_crash_data", "application_url", "contact_info",
      "status", "virginia_specific", "description">>

\* pd.DataFrame(VIRGINIA_STATIC_GRANTS)
get_virginia_static_grants ==
    MakeFrame(VIRGINIA_STATIC_GRANTS,
              [j \in 1..Len(all_columns) |-> <<all_columns[j], all_columns[j]>>])

(***************************************************************************)
(* download_grants_data.py: combining, de-duplicating, sorting             *)
(***************************************************************************)
\* "if col not in frame.columns: frame[col] = None" for every col of
\* all_columns, then frame[all_columns]
SelectAllColumns(grants) ==
    LET filled == AddMissing(grants,
                      [j \in 1..Len(all_columns) |-> <<all_columns[j], NaN>>])
    IN  [cols |-> all_columns,
         rows |-> [i \in 1..Len(filled.rows) |->
                     [idx  |-> filled.rows[i].idx,
                      vals |-> [j \in 1..Len(all_columns) |->
                                  filled.rows[i].vals[
                                      ColPos(filled, all_columns[j])]]]]]

\* pd.concat([a, b], ignore_index=True) of two frames with the same columns
Concat(a, b) ==
    LET both == a.rows \o b.rows
    IN  [cols |-> a.cols,
         rows |-> [i \in 1..Len(both) |-> [idx |-> i - 1, vals |-> both[i].vals]]]

\* mutant: the federal grants are concatenated first
FederalFirst(static_grants, federal) ==
    IF ~FrameEmpty(federal)
    THEN Concat(SelectAllColumns(federal), SelectAllColumns(static_grants))
    ELSE static_grants

\* lines 542-560: static first, federal second, or the static grants alone
CombineGrants(static_grants, federal) ==
    IF ~FrameEmpty(federal)
    THEN Concat(SelectAllColumns(static_grants), SelectAllColumns(federal))
    ELSE static_grants

\* mutant: keep='last', a row goes when a later row has the same value
KeepsLast(grants, col) ==
    LET key(i) == LET v == grants.rows[i].vals[ColPos(grants, col)]
                  IN  IF IsNa(v) THEN NaN ELSE v
        last(i) == \A j \in (i + 1)..Len(grants.rows) : key(j) # key(i)
    IN  [cols |-> grants.cols,
         rows |-> SelectSeq(grants.rows,
                            LAMBDA r : \E i \in 1..Len(grants.rows) :
                                          grants.rows[i] = r /\ last(i))]

\* drop_duplicates(subset=[col], keep='first'): a row goes when an earlier
\* row has the same value in col; two missing values count as the same
drop_duplicates(grants, col) ==
    LET key(i) == LET v == grants.rows[i].vals[ColPos(grants, col)]
                  IN  IF IsNa(v) THEN NaN ELSE v
        first(i) == \A j \in 1..(i - 1) : key(j) # key(i)
        kept == {i \in 1..Len(grants.rows) : first(i)}
        nth(k) == CHOOSE i \in kept : Cardinality({j \in kept : j <= i}) = k
    IN  [cols |-> grants.cols,
         rows |-> [k \in 1..Cardinality(kept) |-> grants.rows[nth(k)]]]

\* sort_values(col, ascending=True, na_position='last') of a short frame:
\* below 16 rows the sort is an insertion sort, equal keys keep their order
RECURSIVE InsertionSort(_, _)
InsertionSort(rows, p) ==
    LET
        \* a sorts before b: ascending dates, NaT last
        DateBefore(a, b) == a.t = "date" /\ (b.t # "date" \/ a.n < b.n)
    IN  IF Len(rows) = 0 THEN <<>>
        ELSE LET last == rows[Len(rows)]
                 init == InsertionSort(SubSeq(rows, 1, Len(rows) - 1), p)
                 after == {i \in 1..Len(init) : DateBefore(last.vals[p], init[i].vals[p])}
                 cut == IF after = {} THEN Len(init)
                        ELSE (CHOOSE i \in after : \A j \in after : i <= j) - 1
             IN  SubSeq(init, 1, cut) \o <<last>> \o SubSeq(init, cut + 1, Len(init))

sort_values(grants, col) ==
    [cols |-> grants.cols,
     rows |-> InsertionSort(grants.rows, ColPos(grants, col))]

\* lines 565-571: last_updated, and close_date parsed, sorted and formatted
Finalize(grants, now) ==
    LET stamped == AddMissing(grants,
                       << <<"last_updated", StrCell(FormatDate(now.day))>> >>)
        parsed == WithColumn(stamped, "close_date", "to_datetime")
        sorted == sort_values(parsed, "close_date")
    IN  WithColumn(sorted, "close_date", "strftime")

(***************************************************************************)
(* What a dated archive of Grants.gov may hold                             *)
(***************************************************************************)
\* a topic code of the list and nothing else
GrantTopicOnly ==
    [id |-> StrCell(<<"G","1">>),
     title |-> StrCell(<<"B","r","i","d","g","e"," ","R","e","p","a","i",
                          "r">>),
     agency |-> StrCell(<<"E","P","A">>),
     code |-> StrCell(<<"E","P","A">>),
     cfda |-> StrCell(<<"2","0",".","2","0","5">>),
     desc |-> NaN,
     close |-> NaN,
     due |-> NaN,
     extra |-> StrCell(<<"D">>)]

\* a safety keyword in the title, an agency outside the list, no topic code
GrantParksKeyword ==
    [id |-> StrCell(<<"G","2">>),
     title |-> StrCell(<<"R","o","a","d"," ","S","a","f","e","t","y"," ",
                          "T","r","a","i","l","s">>),
     agency |-> StrCell(<<"D","e","p","a","r","t","m","e","n","t"," ","o",
                           "f"," ","P","a","r","k","s">>),
     code |-> StrCell(<<"D","O","I">>),
     cfda |-> NaN,
     desc |-> StrCell(<<"T","r","a","i","l"," ","u","p","k","e","e","p">>),
     close |-> StrCell(<<"2","0","2","6","-","1","2","-","3","1">>),
     due |-> StrCell(<<"2","0","2","6","-","0","1","-","0","1">>),
     extra |-> StrCell(<<"D">>)]

\* the title of a static record; a close date that is no date
GrantStaticTitle ==
    [id |-> StrCell(<<"G","5">>),
     title |-> StrCell(<<"S","a","f","e"," ","S","t","r","e","e","t","s",
                          " ","a","n","d"," ","R","o","a","d","s"," ","f",
                          "o","r"," ","A","l","l"," ","(","S","S","4","A",
                          ")"," ","F","Y","2","0","2","6">>),
     agency |-> StrCell(<<"D","O","T">>),
     code |-> StrCell(<<"D","O","T">>),
     cfda |-> StrCell(<<"2","0",".","6","1","6">>),
     desc |-> NaN,
     close |-> StrCell(<<"T","B","D">>),
     due |-> StrCell(<<"T","B","D">>),
     extra |-> StrCell(<<"D">>)]

GrantRowUniverse ==
    LET
        \* agency and keyword match in other letter case; closed long ago
        GrantAgencyKeyword ==
            [id |-> StrCell(<<"G","3">>),
             title |-> StrCell(<<"T","r","a","n","s","i","t"," ","S","t","u","d",
                                  "y">>),
             agency |-> StrCell(<<"f","h","w","a">>),
             code |-> StrCell(<<"D","O","T","-","F","H","W","A">>),
             cfda |-> StrCell(<<"1","5",".","9","1","6">>),
             desc |-> StrCell(<<"V","i","s","i","o","n"," ","Z","E","R","O"," ",
                                 "p","l","a","n">>),
             close |-> StrCell(<<"2","0","2","6","-","0","1","-","0","1">>),
             due |-> StrCell(<<"2","0","2","6","-","1","2","-","3","1">>),
             extra |-> StrCell(<<"D">>)]

        \* an agency of the list, no keyword, another topic code
        GrantAgencyOnly ==
            [id |-> StrCell(<<"G","4">>),
             title |-> StrCell(<<"T","r","a","n","s","i","t"," ","S","t","u","d",
                                  "y">>),
             agency |-> StrCell(<<"U","S"," ","D","O","T">>),
             code |-> StrCell(<<"D","O","T">>),
             cfda |-> StrCell(<<"9","3",".","1","1","3">>),
             desc |-> StrCell(<<"B","u","s"," ","l","a","n","e","s">>),
             close |-> StrCell(<<"2","0","2","6","-","1","2","-","3","1">>),
             due |-> NaN,
             extra |-> StrCell(<<"D">>)]

        \* the title of GrantTopicOnly; closed 30 days before the run
        GrantBoundary ==
            [id |-> StrCell(<<"G","6">>),
             title |-> StrCell(<<"B","r","i","d","g","e"," ","R","e","p","a","i",
                                  "r">>),
             agency |-> NaN,
             code |-> StrCell(<<"D","O","I">>),
             cfda |-> StrCell(<<"2","0",".","6","0","0",";","2","0",".","6","0",
                                 "1">>),
             desc |-> StrCell(<<"D","e","c","k"," ","w","o","r","k">>),
             close |-> StrCell(<<"2","0","2","6","-","1","0","-","0","4">>),
             due |-> StrCell(<<"2","0","2","6","-","1","0","-","0","3">>),
             extra |-> StrCell(<<"D">>)]

        \* a keyword in the title; only the agency code names an agency of the list
        GrantCodeKeyword ==
            [id |-> StrCell(<<"G","7">>),
             title |-> StrCell(<<"B","i","c","y","c","l","e"," ","S","a","f","e",
                                  "t","y"," ","G","r","a","n","t","s">>),
             agency |-> StrCell(<<"P","a","r","k","s"," ","D","e","p","t">>),
             code |-> StrCell(<<"D","O","T","-","N","P","S">>),
             cfda |-> NaN,
             desc |-> NaN,
             close |-> StrCell(<<"2","0","2","6","-","1","1","-","3","0">>),
             due |-> NaN,
             extra |-> StrCell(<<"D">>)]
    IN  {GrantTopicOnly, GrantParksKeyword, GrantAgencyKeyword, GrantAgencyOnly,
         GrantStaticTitle, GrantBoundary, GrantCodeKeyword}

GrantSchemaUniverse ==
    LET
        \* the column names of the mapping, and one column the mapping does not know
        GrantSchemaStd ==
            << <<"OpportunityID", "id">>, <<"OpportunityTitle", "title">>,
               <<"AgencyName", "agency">>, <<"CFDANumbers", "cfda">>,
               <<"Description", "desc">>, <<"CloseDate", "close">>,
               <<"FundingCategory", "extra">> >>

        \* later aliases of the filters; two agency columns and two date columns
        GrantSchemaAlias ==
            << <<"Title", "title">>, <<"Agency", "agency">>, <<"AgencyCode", "code">>,
               <<"CFDA", "cfda">>, <<"Synopsis", "desc">>, <<"DueDate", "due">>,
               <<"CLOSE_DATE", "close">> >>

        \* names that differ from the mapping's in letter case only
        GrantSchemaMixed ==
            << <<"OPPORTUNITYID", "id">>, <<"opportunitytitle", "title">>,
               <<"agencyname", "agency">>, <<"CFDANumbers", "cfda">>,
               <<"closedate", "close">> >>

        \* no column of the mapping
        GrantSchemaUnmapped ==
            << <<"Title", "title">>, <<"CFDA", "cfda">>, <<"Agency", "agency">> >>
    IN  {GrantSchemaStd, GrantSchemaAlias, GrantSchemaMixed, GrantSchemaUnmapped}

\* every table download_grants_extract may parse out of an archive
ExtractTables ==
    GrantTables \cup
    {MakeFrame(r, s) : r \in SeqsUpTo(GrantRowUniverse, MaxGrantRows),
                       s \in GrantSchemaUniverse}

(***************************************************************************)
(* download_grants_data.py: main                                           *)
(***************************************************************************)
\* download_grants_extract() as one step of main: it hands back the table
\* of the first archive that parsed, or what the exhausted lookback gives
DownloadExtract ==
    /\ gpc = "start"
    /\ \E result \in {Returned(t) : t \in ExtractTables} \cup {ExhaustedResult} :
          extract' = result
    /\ gpc' = "done"
    /\ UNCHANGED <<attempt, target_date, probes, mainVars, schedVars, crashVars>>

\* lines 520-529 and 537-539: an exception of the try block leaves
\* federal_grants empty, and so do an empty download and an empty filter result
FilterGrants ==
    /\ gpc = "done"
    /\ LET result == filter_grants(extract.df)
       IN  IF extract.raised \/ FrameEmpty(extract.df)
           THEN gpc' = "combine" /\ relevant' = relevant
           ELSE IF result.raised
           THEN gpc' = "combine" /\ relevant' = relevant
           ELSE /\ relevant' = result.df
                /\ gpc' = IF FrameEmpty(result.df) THEN "combine" ELSE "active"
    /\ UNCHANGED <<attempt, target_date, probes, extract, cutoff_date, active,
                   federal_grants, combined_grants, grantsFile, schedVars,
                   crashVars>>

\* line 531
FilterActive ==
    /\ gpc = "active"
    /\ \E now \in Nows :
          /\ cutoff_date' = CutoffOf(now)
          /\ active' = filter_active_grants(relevant, now)
    /\ gpc' = "map"
    /\ UNCHANGED <<attempt, target_date, probes, extract, relevant,
                   federal_grants, combined_grants, grantsFile, schedVars,
                   crashVars>>

\* line 534
MapColumns ==
    /\ gpc = "map"
    /\ federal_grants' = map_to_output_columns(active)
    /\ gpc' = "combine"
    /\ UNCHANGED <<attempt, target_date, probes, extract, relevant, cutoff_date,
                   active, combined_grants, grantsFile, schedVars, crashVars>>

\* lines 541-563
Combine ==
    /\ gpc = "combine"
    /\ combined_grants' =
          drop_duplicates(CombineGrants(get_virginia_static_grants,
                                        federal_grants), "title")
    /\ gpc' = "save"
    /\ UNCHANGED <<attempt, target_date, probes, extract, relevant, cutoff_date,
                   active, federal_grants, grantsFile, schedVars, crashVars>>

\* mutant: a run without federal grants writes an error row
WritesErrorRow(grants, federal, now) ==
    IF FrameEmpty(federal)
    THEN [exists |-> TRUE,
          header |-> <<"error">>,
          lines  |-> << <<<<"n","o"," ","d","a","t","a">>>> >>]
    ELSE to_csv(Finalize(grants, now))

\* lines 565-575: what is written to data/grants.csv
OutputOf(grants, federal, now) == to_csv(Finalize(grants, now))

\* lines 565-585
SaveGrants ==
    /\ gpc = "save"
    /\ \E now \in Nows :
          /\ combined_grants' = Finalize(combined_grants, now)
          /\ grantsFile' = OutputOf(combined_grants, federal_grants, now)
    /\ gpc' = "returned"
    /\ UNCHANGED <<attempt, target_date, probes, extract, relevant, cutoff_date,
                   active, federal_grants, schedVars, crashVars>>

(***************************************************************************)
(* Specifications                                                          *)
(***************************************************************************)
\* the crash process, from its start to the end of its first run of main
\* the process of script p has been started and is in its first call of main
ShellInit(p) ==
    /\ pipeline = p
    /\ shell = "startup"
    /\ clock = 0
    /\ next_run = 0
    /\ runs = <<>>

Init ==
    /\ CrashInit
    /\ GrantsInit
    /\ ShellInit("crash")

Next ==
    \/ StartMain
    \/ CountCandidate
    \/ CountAll
    \/ FetchPage
    \/ AfterPrimary
    \/ Fallback
    \/ FilterJuris
    \/ FilterRoute
    \/ FilterSystem
    \/ Save

Spec == Init /\ [][Next]_vars

\* a call of download_grants_extract
GrantsNext ==
    \/ StartExtract
    \/ ProbeReturns
    \/ ProbeFallsThrough

GrantsStart ==
    /\ CrashInit
    /\ GrantsInit
    /\ ShellInit("grants")
    /\ outputFile = NoFile

GrantsSpec == GrantsStart /\ [][GrantsNext]_vars

\* a run of main of download_grants_data.py, the download taken as one step
GrantsMainNext ==
    \/ DownloadExtract
    \/ FilterGrants
    \/ FilterActive
    \/ MapColumns
    \/ Combine
    \/ SaveGrants

GrantsMainStart ==
    /\ CrashInit
    /\ GrantsInit
    /\ ShellInit("grants")
    /\ outputFile = NoFile

GrantsMainSpec == GrantsMainStart /\ [][GrantsMainNext]_vars

(***************************************************************************)
(* The scheduler shell of both scripts: the __main__ block                 *)
(***************************************************************************)
\* main's filter chain on an acquired record set, with its three
\* "if df.empty: sys.exit(1)"; an exception of a step is not caught
RunChain(frame) ==
    LET a == filter_henrico_county(frame) IN
    IF a.raised THEN [end |-> "raised", df |-> frame]
    ELSE IF StopsOnEmpty(a.df) THEN [end |-> "exit", df |-> a.df]
    ELSE
    LET b == filter_exclude_state_routes(a.df) IN
    IF b.raised THEN [end |-> "raised", df |-> a.df]
    ELSE IF StopsOnEmpty(b.df) THEN [end |-> "exit", df |-> b.df]
    ELSE
    LET c == filter_nonvdot_system(b.df) IN
    IF c.raised THEN [end |-> "raised", df |-> b.df]
    ELSE IF StopsOnEmpty(c.df) THEN [end |-> "exit", df |-> c.df]
    ELSE [end |-> "returned", df |-> c.df]

\* what the two sources of a crash run hand to main: nothing (both failed)
\* or a record set
Acquisitions ==
    {[ok |-> FALSE, df |-> EmptyFrame]} \cup
    {[ok |-> TRUE, df |-> MakeFrame(r, sch)] :
        r \in SeqsUpTo(RowUniverse, MaxCsvRows) \ {<< >>},
        sch \in SchemaUniverse}

\* how a call of main() ends: "returned" (return 0), "exit" (sys.exit(1)
\* raises SystemExit) or "raised" (an exception main does not catch).  The
\* grants main catches every exception of its download and filters and
\* always returns 0.
MainOutcome(p, acq) ==
    IF p = "grants" THEN "returned"
    ELSE IF ~acq.ok THEN "exit"
    ELSE RunChain(acq.df).end

SchedStart ==
    /\ CrashInit
    /\ GrantsInit
    /\ \E p \in {"crash", "grants"} : ShellInit(p)

\* "main()" of the __main__ block, then schedule.every().monday.at(...):
\* the first trigger is the next Monday 06:00, at most a week away.
\* SystemExit or an exception of main() leaves the block.
StartupRun ==
    /\ shell = "startup"
    /\ \E acq \in Acquisitions :
        LET outcome == MainOutcome(pipeline, acq) IN
        /\ runs' = Append(runs, outcome)
        /\ IF outcome = "returned"
           THEN /\ shell' = "loop"
                /\ \E d \in 1..WeekTicks : next_run' = clock + d
           ELSE /\ shell' = "ended"
                /\ next_run' = next_run
    /\ UNCHANGED <<clock, pipeline, crashVars, gpc, attempt, target_date,
                   probes, extract, mainVars>>

\* a pass of "while True" with the job due: schedule.run_pending() calls
\* main() and re-schedules it a week later, then time.sleep(60).  SystemExit
\* or an exception of main() propagates out of run_pending and of the loop.
RunPending ==
    /\ shell = "loop"
    /\ clock >= next_run
    /\ clock < MaxClock
    /\ \E acq \in Acquisitions :
        LET outcome == MainOutcome(pipeline, acq) IN
        /\ runs' = Append(runs, outcome)
        /\ IF outcome = "returned"
           THEN /\ shell' = "loop"
                /\ next_run' = next_run + WeekTicks
                /\ clock' = clock + 1
           ELSE /\ shell' = "ended"
                /\ UNCHANGED <<next_run, clock>>
    /\ UNCHANGED <<pipeline, crashVars, gpc, attempt, target_date, probes,
                   extract, mainVars>>

\* a pass of "while True" with nothing due
Sleep ==
    /\ shell = "loop"
    /\ clock < next_run
    /\ clock < MaxClock
    /\ clock' = clock + 1
    /\ UNCHANGED <<shell, next_run, runs, pipeline, crashVars, gpc, attempt,
                   target_date, probes, extract, mainVars>>

SchedNext ==
    \/ StartupRun
    \/ RunPending
    \/ Sleep

SchedSpec == SchedStart /\ [][SchedNext]_vars


(***************************************************************************)
(* Properties                                                              *)
(***************************************************************************)
\* the positions of requests that satisfy a test
PageRequests == {i \in 1..Len(requests) : requests[i].req = "page"}
CandidateCounts ==
    {i \in 1..Len(requests) :
        requests[i].req = "count" /\ requests[i].where # SelectAll}
PositiveCount(i) == requests[i].ok /\ requests[i].n >= 1

\* ceil(a / b)
Ceil(a, b) == (a + b - 1) \div b

\* C1: when the paginated source raised and the bulk CSV source failed too,
\* the process has exited with a non-zero status and data/crashes.csv is what
\* the process found at its start: nothing was written.
C1_TotalFailureLeavesFile ==
    (primary = "raised" /\ csvRequested /\ source = "none")
        => /\ pc = "exit"
           /\ status # 0
           /\ ~wrote
           /\ outputFile = fileAtStart

\* both sources failed while a file of a previous run was on disk
C1_Witness ==
    /\ primary = "raised"
    /\ csvRequested
    /\ source = "none"
    /\ pc = "exit"
    /\ fileAtStart = PreviousOutput

\* C2: the candidates are counted in list order and counting stops at the
\* first one whose count is >= 1; every page request carries that candidate,
\* and "1=1" is requested exactly when all candidates came back zero or failed.
C2_FirstPositiveCandidateWins ==
    /\ \A i \in CandidateCounts :
          /\ i <= Len(where_clauses)
          /\ requests[i].where = where_clauses[i]
          /\ \A j \in 1..(i - 1) : j \in CandidateCounts /\ ~PositiveCount(j)
    /\ \A i \in PageRequests :
          IF \E j \in CandidateCounts : PositiveCount(j)
          THEN \E j \in CandidateCounts :
                  PositiveCount(j) /\ requests[i].where = requests[j].where
          ELSE requests[i].where = SelectAll
    /\ \A i \in 1..Len(requests) :
          requests[i].where = SelectAll
              => /\ Cardinality(CandidateCounts) = Len(where_clauses)
                 /\ \A j \in CandidateCounts : ~PositiveCount(j)
    /\ (pc \in {"page", "arcgis_end"} /\ \A j \in CandidateCounts : ~PositiveCount(j))
          => \E i \in 1..Len(requests) : requests[i].where = SelectAll

\* the first candidate failed, the second was positive and pages use it
C2_Witness ==
    /\ Len(requests) >= 4
    /\ ~requests[1].ok
    /\ PositiveCount(2)
    /\ requests[3].req = "page" /\ requests[3].where = where_clauses[2]
    /\ requests[4].req = "page" /\ requests[4].where = where_clauses[2]

\* C3 as claimed: a page that returns fewer than RECORDS_PER_REQUEST records
\* (or none) is the last page requested, and otherwise ceil(T/P) are requested.
C3_Original_ShortPageStops ==
    /\ \A i \in PageRequests :
          (requests[i].ok /\ requests[i].n < RECORDS_PER_REQUEST)
              => i = Len(requests)
    /\ (pc = "arcgis_end" /\ \A i \in PageRequests :
                                requests[i].ok /\ requests[i].n = RECORDS_PER_REQUEST)
          => Cardinality(PageRequests) = Ceil(count, RECORDS_PER_REQUEST)

\* C3 amended: at most ceil(T/P) page requests are issued; a page request
\* that fails or returns zero records is the last one; and when every page
\* returned at least one record, exactly ceil(T/P) were issued, short pages
\* included.
C3_PageRequestCount ==
    /\ Cardinality(PageRequests) <= Ceil(count, RECORDS_PER_REQUEST)
    /\ \A i \in PageRequests :
          (~requests[i].ok \/ requests[i].n = 0) => i = Len(requests)
    /\ (pc = "arcgis_end" /\ \A i \in PageRequests :
                                requests[i].ok /\ requests[i].n >= 1)
          => Cardinality(PageRequests) = Ceil(count, RECORDS_PER_REQUEST)

\* the fetch went on after a short page and ended with ceil(T/P) requests
C3_Witness ==
    /\ pc = "arcgis_end"
    /\ primary = "returned"
    /\ Cardinality(PageRequests) >= 2
    /\ \E i \in PageRequests :
          /\ i < Len(requests)
          /\ requests[i].ok
          /\ requests[i].n >= 1
          /\ requests[i].n < RECORDS_PER_REQUEST

\* C4 as claimed: download_from_arcgis raises only when its latest request
\* failed.
C4_Original_RaisesOnlyOnFailure ==
    (pc = "arcgis_end" /\ primary = "raised")
        => (Len(requests) >= 1 /\ ~requests[Len(requests)].ok)

\* C4 amended: download_from_arcgis raises exactly when the "1=1" count or a
\* page request failed, or when no record was accumulated; what it returns
\* is never empty.
C4_RaisesOnFailureOrEmpty ==
    /\ pc = "arcgis_end" =>
          /\ primary \in {"raised", "returned"}
          /\ primary = "raised" <=>
                \/ Len(all_records) = 0
                \/ /\ ~requests[Len(requests)].ok
                   /\ \/ requests[Len(requests)].req = "page"
                      \/ requests[Len(requests)].where = SelectAll
          /\ primary = "returned" => Len(all_records) >= 1
    /\ source = "arcgis" => Len(raw.rows) >= 1

\* every request succeeded, nothing matched, and the call raised
C4_Witness ==
    /\ pc = "arcgis_end"
    /\ primary = "raised"
    /\ Len(requests) = Len(where_clauses) + 1
    /\ \A i \in 1..Len(requests) : requests[i].ok

\* C6: the paginated source is invoked first; the bulk CSV source is
\* requested only after the paginated source raised (it never returns an
\* empty set); the first source that returned records supplies the data.
C6_SourceOrder ==
    /\ primary = "pending" =>
          /\ ~csvRequested
          /\ source = "none"
          /\ pc \in {"start", "count", "count_all", "page"}
    /\ (csvRequested \/ pc = "fallback") => primary = "raised"
    /\ source = "arcgis" =>
          /\ primary = "returned"
          /\ ~csvRequested
          /\ Len(raw.rows) >= 1
    /\ source = "csv" => (csvRequested /\ primary = "raised")
    /\ pc \in {"juris", "route", "system", "save", "returned"} => source # "none"

\* the paginated source raised and the bulk CSV source supplied the records
C6_Witness ==
    /\ source = "csv"
    /\ primary = "raised"
    /\ pc = "route"
    /\ Len(raw.rows) >= 2

\* the probes so far that were answered with status 200
Probes200 == {i \in 1..Len(probes) : probes[i][2] = 200}

\* C5 as claimed: when no probed date was answered with 200, the call of
\* download_grants_extract ends by raising to its caller.
C5_Original_ExhaustedRaises ==
    (gpc = "done" /\ Probes200 = {}) => extract.raised

\* C5 amended: when no probed date was answered with 200, the call ends
\* normally after MAX_LOOKBACK_DAYS probes and hands back an empty frame.
C5_ExhaustedReturnsEmpty ==
    (gpc = "done" /\ Probes200 = {})
        => /\ ~extract.raised
           /\ extract.df = EmptyFrame
           /\ Len(probes) = MAX_LOOKBACK_DAYS

\* the whole window was probed, with 404 for today, and no 200
C5_Witness ==
    /\ gpc = "done"
    /\ Probes200 = {}
    /\ Len(probes) = MAX_LOOKBACK_DAYS
    /\ probes[1] = <<0, 404>>

(***************************************************************************)
(* What the filter chain is meant to keep, stated on one row of a frame    *)
(***************************************************************************)
Cell(frame, row, col) == AsStr(row.vals[ColPos(frame, col)])

JurisColumn(frame) == FirstPresent(juris_columns, Columns(frame))
NameColumn(frame) == FirstPresent(name_columns, Columns(frame))
FipsColumn(frame) == FirstPresent(fips_columns, Columns(frame))
RouteColumn(frame) == FirstPresent(route_columns, Columns(frame))
SystemColumn(frame) == FirstPresent(system_columns, Columns(frame))

MatchesHenrico(frame, row) ==
    \/ /\ JurisColumn(frame) # NoColumn
       /\ StrStrip(Cell(frame, row, JurisColumn(frame))) = HENRICO_JURIS_CODE
    \/ /\ NameColumn(frame) # NoColumn
       /\ \E k \in 1..Len(HENRICO_NAME_PATTERNS) :
             Contains(StrUpper(Cell(frame, row, NameColumn(frame))),
                      StrUpper(HENRICO_NAME_PATTERNS[k]))
    \/ /\ FipsColumn(frame) # NoColumn
       /\ StrStrip(Cell(frame, row, FipsColumn(frame))) = HENRICO_FIPS

MatchesExclusion(routeValue) ==
    \/ InterstatePattern(routeValue)
    \/ UsRoutePattern(routeValue)
    \/ StateRoutePattern(routeValue)
    \/ BusinessPattern(routeValue)

RouteExcluded(frame, row) ==
    /\ RouteColumn(frame) # NoColumn
    /\ MatchesExclusion(Cell(frame, row, RouteColumn(frame)))

SystemKept(frame, row) ==
    \/ SystemColumn(frame) = NoColumn
    \/ ContainsCI(Cell(frame, row, SystemColumn(frame)),
                  <<"N","O","N","V","D","O","T">>)

\* the rows of raw the chain is meant to keep
ExpectedRows(frame) ==
    SelectSeq(frame.rows,
              LAMBDA r : /\ MatchesHenrico(frame, r)
                         /\ ~RouteExcluded(frame, r)
                         /\ SystemKept(frame, r))

\* a is b with some rows left out, in order
RECURSIVE IsSubSeq(_, _)
IsSubSeq(a, b) ==
    IF Len(a) = 0 THEN TRUE
    ELSE IF Len(b) = 0 THEN FALSE
    ELSE IF Head(a) = Head(b) THEN IsSubSeq(Tail(a), Tail(b))
    ELSE IsSubSeq(a, Tail(b))

RowsOf(frame) == {frame.rows[i] : i \in 1..Len(frame.rows)}

\* the run is past a filter step and has not yet renamed the columns
AfterStep(name) == step = name /\ ~wrote /\ pc # "returned"

\* C7: a filter step none of whose column aliases is present hands back its
\* input unchanged and does not end the run; in particular the jurisdiction
\* step, when no jurisdiction-code, jurisdiction-name or FIPS column is there.
C7_ResolutionMissPassesThrough ==
    /\ (/\ AfterStep("juris")
        /\ Len(dfIn.rows) >= 1
        /\ JurisColumn(dfIn) = NoColumn
        /\ NameColumn(dfIn) = NoColumn
        /\ FipsColumn(dfIn) = NoColumn)
          => (df = dfIn /\ pc = "route")
    /\ (AfterStep("route") /\ RouteColumn(dfIn) = NoColumn)
          => (df = dfIn /\ pc = "system")
    /\ (AfterStep("system") /\ SystemColumn(dfIn) = NoColumn)
          => (df = dfIn /\ pc = "save")

\* C8: a run that acquired a record set ends by writing exactly the records
\* that match the Henrico jurisdiction, match no route-exclusion pattern and
\* (when a system column resolves) carry the NonVDOT marker; when there is
\* no such record it exits non-zero without writing.
C8_ChainKeepsExactlyTheMatching ==
    (source # "none" /\ pc \in {"returned", "exit", "crashed"})
        => IF Len(ExpectedRows(raw)) > 0
           THEN /\ pc = "returned"
                /\ wrote
                /\ outputFile = to_csv(standardize_columns(
                      [cols |-> raw.cols, rows |-> ExpectedRows(raw)]))
           ELSE /\ pc = "exit"
                /\ ~wrote

\* C9: with a resolvable route column the route step returns a sub-sequence
\* of its input: every row it removed matches an exclusion pattern and every
\* row it kept matches none.
C9_RouteExclusionSubtractive ==
    (AfterStep("route") /\ RouteColumn(dfIn) # NoColumn)
        => /\ pc # "crashed"
           /\ Len(df.rows) <= Len(dfIn.rows)
           /\ IsSubSeq(df.rows, dfIn.rows)
           /\ \A r \in RowsOf(dfIn) \ RowsOf(df) : RouteExcluded(dfIn, r)
           /\ \A r \in RowsOf(df) : ~RouteExcluded(dfIn, r)

\* C10: a filter step that leaves zero records ends the run with a non-zero
\* status before anything is written, so a written data/crashes.csv holds at
\* least one record line.
C10_NeverWritesEmptyTable ==
    /\ (step # "none" /\ pc # "crashed" /\ ~wrote /\ FrameEmpty(df))
          => /\ pc = "exit"
             /\ status # 0
             /\ outputFile = fileAtStart
    /\ wrote => (outputFile.exists /\ Len(outputFile.lines) >= 1)
    /\ pc = "save" => ~FrameEmpty(df)

\* the route step left nothing of a non-empty input and the run exited
C10_Witness ==
    /\ step = "route"
    /\ pc = "exit"
    /\ status = 1
    /\ Len(dfIn.rows) >= 1
    /\ FrameEmpty(df)
    /\ fileAtStart = PreviousOutput

(***************************************************************************)
(* What the grants filters are meant to keep, stated on one row            *)
(***************************************************************************)
\* main is past the call of filter_grants on a download that held records
PastFilterGrants ==
    /\ gpc \in {"active", "map", "combine", "save", "returned"}
    /\ ~extract.raised
    /\ ~FrameEmpty(extract.df)

CfdaColumn(frame) == FirstPresent(cfda_columns, Columns(frame))

\* the record carries a topic code of the list
TopicMatch(frame, row) ==
    /\ CfdaColumn(frame) # NoColumn
    /\ \E k \in 1..Len(SAFETY_CFDA_NUMBERS) :
          ContainsEscaped(Cell(frame, row, CfdaColumn(frame)),
                          SAFETY_CFDA_NUMBERS[k])

\* some agency column of the record names an agency of the list, in any case
AgencyMatch(frame, row) ==
    \E a \in 1..Len(agency_columns) :
        /\ agency_columns[a] \in Columns(frame)
        /\ \E k \in 1..Len(SAFETY_AGENCIES) :
              ContainsEscaped(StrUpper(Cell(frame, row, agency_columns[a])),
                              StrUpper(SAFETY_AGENCIES[k]))

KeywordIn(frame, row, col) ==
    /\ col # NoColumn
    /\ \E k \in 1..Len(SAFETY_KEYWORDS) :
          ContainsEscaped(StrLower(Cell(frame, row, col)), SAFETY_KEYWORDS[k])

TitleColumn(frame) == FirstPresent(title_columns, Columns(frame))

\* a safety keyword stands in the title or in the description
KeywordMatch(frame, row) ==
    \/ KeywordIn(frame, row, TitleColumn(frame))
    \/ KeywordIn(frame, row, FirstPresent(desc_columns, Columns(frame)))

\* the record has no topic code at all
NoTopicCode(frame, row) ==
    \/ CfdaColumn(frame) = NoColumn
    \/ row.vals[ColPos(frame, CfdaColumn(frame))] = NaN

\* the record's topic code is 20.205 and no agency column matches
IsTopicOnlyRecord(frame, row) ==
    /\ CfdaColumn(frame) # NoColumn
    /\ Cell(frame, row, CfdaColumn(frame)) = <<"2","0",".","2","0","5">>
    /\ ~AgencyMatch(frame, row)

\* the record's agency is "Department of Parks", its title holds a safety
\* keyword and it has no topic code
IsParksRecord(frame, row) ==
    /\ \E a \in 1..Len(agency_columns) :
          /\ agency_columns[a] \in Columns(frame)
          /\ row.vals[ColPos(frame, agency_columns[a])] = GrantParksKeyword.agency
    /\ ~AgencyMatch(frame, row)
    /\ KeywordIn(frame, row, TitleColumn(frame))
    /\ NoTopicCode(frame, row)

\* C11: filter_grants keeps exactly the downloaded records that carry a
\* topic code of the list or match both an agency and a safety keyword, in
\* their order; a record with topic code 20.205 and no agency match is kept,
\* a "Department of Parks" record with a keyword in its title and no topic
\* code is dropped.
C11_TopicOrAgencyAndKeyword ==
    PastFilterGrants =>
        /\ relevant.cols = extract.df.cols
        /\ relevant.rows =
              SelectSeq(extract.df.rows,
                        LAMBDA r : \/ TopicMatch(extract.df, r)
                                   \/ /\ AgencyMatch(extract.df, r)
                                      /\ KeywordMatch(extract.df, r))
        /\ \A r \in RowsOf(extract.df) :
              /\ IsTopicOnlyRecord(extract.df, r) => r \in RowsOf(relevant)
              /\ IsParksRecord(extract.df, r) => r \notin RowsOf(relevant)

\* a download of a topic-only record and a Parks record: the first was kept,
\* the second dropped
C11_Witness ==
    /\ PastFilterGrants
    /\ Len(extract.df.rows) = 2
    /\ IsTopicOnlyRecord(extract.df, extract.df.rows[1])
    /\ IsParksRecord(extract.df, extract.df.rows[2])
    /\ relevant.rows = <<extract.df.rows[1]>>

\* main is past the call of filter_active_grants
PastFilterActive == gpc \in {"map", "combine", "save", "returned"} /\ cutoff_date # NoDate

DateColumn(frame) == FirstPresent(date_columns, Columns(frame))

\* the close-date value of the record is missing or is no date
CloseDateUnusable(frame, row) ==
    LET v == row.vals[ColPos(frame, DateColumn(frame))]
    IN  v = NaN \/ (v.t = "str" /\ ~IsIsoDate(v.s))

\* the close date of the record is a date, and that day (at midnight) lies
\* before the cutoff
ClosedBeforeCutoff(frame, row) ==
    LET v == row.vals[ColPos(frame, DateColumn(frame))]
        d == Ordinal(NumberOf(SubSeq(v.s, 1, 4)), NumberOf(SubSeq(v.s, 6, 7)),
                     NumberOf(SubSeq(v.s, 9, 10)))
    IN  /\ v.t = "str"
        /\ IsIsoDate(v.s)
        /\ \/ d < cutoff_date.day
           \/ (d = cutoff_date.day /\ cutoff_date.tod > 0)

\* C12: filter_active_grants never drops a record whose close date is
\* missing or does not parse; a record it drops has a close date that
\* parses and lies before now - 30 days; without a date column nothing is
\* dropped.
C12_ActiveWindowKeepsNulls ==
    PastFilterActive =>
        IF DateColumn(relevant) = NoColumn
        THEN active = relevant
        ELSE /\ IndexOf(active) \subseteq IndexOf(relevant)
             /\ \A i \in 1..Len(relevant.rows) :
                   LET r == relevant.rows[i]
                   IN  /\ CloseDateUnusable(relevant, r) => r.idx \in IndexOf(active)
                       /\ r.idx \notin IndexOf(active)
                             => ClosedBeforeCutoff(relevant, r)

\* a record closed long ago was dropped next to one whose close date is no
\* date, which was kept
C12_Witness ==
    /\ PastFilterActive
    /\ DateColumn(relevant) # NoColumn
    /\ \E i, j \in 1..Len(relevant.rows) :
          /\ relevant.rows[i].vals[ColPos(relevant, DateColumn(relevant))]
                = GrantStaticTitle.close
          /\ relevant.rows[i].idx \in IndexOf(active)
          /\ ClosedBeforeCutoff(relevant, relevant.rows[j])
          /\ relevant.rows[j].idx \notin IndexOf(active)

\* main is past lines 541-563: the grants are combined and de-duplicated
PastCombine == gpc \in {"save", "returned"}

\* the rows of the federal grants as they enter the concatenation
FederalRows == SelectAllColumns(federal_grants).rows

StaticRows == get_virginia_static_grants.rows

\* C13: the static grants are concatenated first and the federal grants
\* second; of the records with one title only the first of that order is in
\* combined_grants, so a federal record with the title of a static record is
\* not there and the static record is.
C13_DedupKeepsStatic ==
    (PastCombine /\ ~FrameEmpty(federal_grants)) =>
        LET order == StaticRows \o FederalRows
            firsts == {i \in 1..Len(order) :
                          \A j \in 1..(i - 1) :
                              order[j].vals[2] # order[i].vals[2]}
        IN  /\ all_columns[2] = "title"
            /\ IndexOf(combined_grants) = {i - 1 : i \in firsts}
            /\ \A i \in firsts :
                  \E k \in 1..Len(combined_grants.rows) :
                      /\ combined_grants.rows[k].idx = i - 1
                      /\ gpc = "save" => combined_grants.rows[k].vals = order[i].vals
            /\ \A s \in 1..Len(StaticRows) : s \in firsts
            /\ \A f \in 1..Len(FederalRows) :
                  (\E s \in 1..Len(StaticRows) :
                      StaticRows[s].vals[2] = FederalRows[f].vals[2])
                  => (Len(StaticRows) + f - 1) \notin IndexOf(combined_grants)

\* of two federal records the first, which has the title of a static
\* record, was dropped and the second was kept
C13_Witness ==
    /\ gpc = "save"
    /\ Len(FederalRows) = 2
    /\ FederalRows[1].vals[2] = Static_VA_SS4A_FY2026.title
    /\ FederalRows[2].vals[2] = GrantTopicOnly.title
    /\ IndexOf(combined_grants) =
          0..(Len(StaticRows) - 1) \cup {Len(StaticRows) + 1}

\* the line a static record makes in the written file: its values under
\* all_columns, as the writer puts them
StaticLine(rec) == [j \in 1..Len(all_columns) |-> CsvCell(rec[all_columns[j]])]

\* the file holds a line that starts with the values of the record
FileHolds(file, rec) ==
    \E k \in 1..Len(file.lines) :
        /\ Len(file.lines[k]) >= Len(all_columns)
        /\ SubSeq(file.lines[k], 1, Len(all_columns)) = StaticLine(rec)
        /\ SubSeq(file.header, 1, Len(all_columns)) = all_columns

\* data/grants.csv exists and holds every record of VIRGINIA_STATIC_GRANTS
StaticWritten ==
    /\ grantsFile.exists
    /\ \A s \in 1..Len(VIRGINIA_STATIC_GRANTS) :
          FileHolds(grantsFile, VIRGINIA_STATIC_GRANTS[s])

\* every static record is a row of the frame, with its values
StaticCombined ==
    \A s \in 1..Len(StaticRows) :
        \E k \in 1..Len(combined_grants.rows) :
            SubSeq(combined_grants.rows[k].vals, 1, Len(all_columns))
                = StaticRows[s].vals

\* C14: whatever download_grants_extract handed back (a table, an empty
\* frame, an exception) and whatever the filters left of it, main goes past
\* the try block to the combining step with every static record in
\* combined_grants, and a run that has returned has written data/grants.csv
\* with every record of VIRGINIA_STATIC_GRANTS in it.
C14_StaticFloor ==
    /\ gpc \in {"start", "done", "active", "map", "combine", "save", "returned"}
    /\ gpc = "save" => StaticCombined
    /\ gpc = "returned" => StaticWritten
    /\ gpc # "returned" => ~grantsFile.exists

\* the file was written after a download whose only record had the title of
\* a static record
C14_Witness ==
    /\ gpc = "returned"
    /\ grantsFile.exists
    /\ Len(extract.df.rows) = 1
    /\ Len(federal_grants.rows) = 1
    /\ FederalRows[1].vals[2] = Static_VA_SS4A_FY2026.title
    /\ Len(grantsFile.lines) = Len(VIRGINIA_STATIC_GRANTS)

\* the acquisition of the downloadable source failed totally: every probe of
\* the lookback window fell through, or the call raised
TotalFailure == extract.raised \/ extract.df = EmptyFrame

\* C15 as claimed: after a total failure of the acquisition the written file
\* consists of a single error-placeholder row.
C15_Original_ErrorPlaceholder ==
    (gpc = "returned" /\ TotalFailure) =>
        /\ grantsFile.exists
        /\ Len(grantsFile.lines) = 1

\* C15 amended: after a total failure of the acquisition main writes no error
\* placeholder; the written file has the header all_columns + last_updated
\* and exactly one line per record of VIRGINIA_STATIC_GRANTS.
C15_TotalFailureWritesStatic ==
    (gpc = "returned" /\ TotalFailure) =>
        /\ grantsFile.exists
        /\ grantsFile.header = Append(all_columns, "last_updated")
        /\ Len(grantsFile.lines) = Len(VIRGINIA_STATIC_GRANTS)
        /\ StaticWritten

\* the lookback was exhausted and the run has written and returned
C15_Witness ==
    /\ gpc = "returned"
    /\ extract = ExhaustedResult
    /\ grantsFile.exists
    /\ Len(grantsFile.lines) > 1

\* the output names of the rename mapping of standardize_columns
CanonicalCrashColumns ==
    {column_mapping[k][2] : k \in 1..Len(column_mapping)}

HeaderWithin(file, names) ==
    \A j \in 1..Len(file.header) : file.header[j] \in names

\* C16: a written data/crashes.csv has no column outside the output names
\* of the rename mapping (an upstream column without an entry is dropped),
\* and a written data/grants.csv has no column outside all_columns.
C16_CanonicalSchemaClosed ==
    /\ wrote => HeaderWithin(outputFile, CanonicalCrashColumns)
    /\ gpc = "returned" =>
          HeaderWithin(grantsFile, {all_columns[j] : j \in 1..Len(all_columns)})

(***************************************************************************)
(* The scheduler shell                                                     *)
(***************************************************************************)
\* C17: the pipeline runs once at process start and again at every weekly
\* trigger: once a run has finished, however it ended, the shell is in its
\* loop (alive) and no trigger that has come due is left without its run.
C17_SchedulerSurvivesEveryRun ==
    /\ shell = "startup" => runs = << >>
    /\ runs # << >> =>
          /\ shell = "loop"
          /\ clock <= next_run
          /\ next_run <= clock + WeekTicks

(***************************************************************************)
(* Row order                                                               *)
(***************************************************************************)
\* the record sets that hold the rows of a frame in another order
Reorderings(frame) ==
    LET n == Len(frame.rows)
        Orders == {g \in [1..n -> 1..n] :
                      \A i, j \in 1..n : g[i] = g[j] => i = j}
    IN  {[cols |-> frame.cols,
          rows |-> [i \in 1..n |->
                       [idx |-> i - 1, vals |-> frame.rows[g[i]].vals]]] :
            g \in Orders}

\* the records of a frame, each as often as it occurs
RecordBag(frame) ==
    LET Vals == {frame.rows[i].vals : i \in 1..Len(frame.rows)}
    IN  [v \in Vals |->
            Cardinality({i \in 1..Len(frame.rows) : frame.rows[i].vals = v})]

\* C18: whatever the order of the rows of the acquired record set, the
\* jurisdiction match, route exclusion and ownership-system match run in
\* sequence without an error and keep the same records as for the order
\* that was acquired.
C18_RowOrderIndependence ==
    source # "none" =>
        \A other \in Reorderings(raw) :
            /\ RunChain(other).end # "raised"
            /\ RunChain(other).end = RunChain(raw).end
            /\ RecordBag(RunChain(other).df) = RecordBag(RunChain(raw).df)

(***************************************************************************)
(* The lookback window                                                     *)
(***************************************************************************)
\* the probes for a calendar day before today
PriorDayProbes == {i \in 1..Len(probes) : probes[i][1] < 0}

\* C19: each probe is for the day before the previous probe's, and when the
\* archive dated today was not found (404) and no probe was answered with
\* 200, download_grants_extract gives up only after MAX_LOOKBACK_DAYS (7)
\* prior calendar days have been probed.
C19_LookbackSevenPriorDays ==
    /\ \A i \in 2..Len(probes) : probes[i][1] = probes[i - 1][1] - 1
    /\ (/\ gpc = "done"
        /\ Probes200 = {}
        /\ Len(probes) >= 1
        /\ probes[1] = <<0, 404>>)
          => Cardinality(PriorDayProbes) = MAX_LOOKBACK_DAYS

(***************************************************************************)
(* Column resolution                                                       *)
(***************************************************************************)
\* the first alias, in list order, that is a column
RECURSIVE Resolve(_, _)
Resolve(aliases, cols) ==
    IF Len(aliases) = 0 THEN NoColumn
    ELSE IF Head(aliases) \in cols THEN Head(aliases)
    ELSE Resolve(Tail(aliases), cols)

AliasSet(aliases) == {aliases[i] : i \in 1..Len(aliases)}

\* the frame without the columns that are aliases of the list but are not
\* the resolved one
OnlyResolved(frame, aliases) ==
    LET chosen == Resolve(aliases, Columns(frame))
        pos == SelectSeq([j \in 1..Len(frame.cols) |-> j],
                         LAMBDA j : \/ frame.cols[j] \notin AliasSet(aliases)
                                    \/ frame.cols[j] = chosen)
    IN  [cols |-> [k \in 1..Len(pos) |-> frame.cols[pos[k]]],
         rows |-> [i \in 1..Len(frame.rows) |->
                     [idx  |-> frame.rows[i].idx,
                      vals |-> [k \in 1..Len(pos) |->
                                   frame.rows[i].vals[pos[k]]]]]]

Labels(frame) == [i \in 1..Len(frame.rows) |-> frame.rows[i].idx]

\* the topic-code, title, description and date steps consult the resolved
\* column only, and skip when no exact alias is a column
SingleColumnSteps ==
    /\ PastFilterGrants =>
          /\ filter_by_cfda(extract.df) =
                filter_by_cfda(OnlyResolved(extract.df, cfda_columns))
          /\ filter_by_keywords(extract.df) =
                filter_by_keywords(
                    OnlyResolved(OnlyResolved(extract.df, title_columns),
                                 desc_columns))
          /\ Resolve(cfda_columns, Columns(extract.df)) = NoColumn =>
                \A l \in IndexOf(extract.df) : ~filter_by_cfda(extract.df)[l]
    /\ PastFilterActive =>
          /\ \E now \in Nows :
                /\ CutoffOf(now) = cutoff_date
                /\ Labels(active) =
                      Labels(filter_active_grants(
                                 OnlyResolved(relevant, date_columns), now))
          /\ Resolve(date_columns, Columns(relevant)) = NoColumn =>
                active = relevant

\* C20: every step that looks a column up in an alias list uses the first
\* alias, in list order, that is a column of the record set and no other:
\* its result is the same when the other aliases of the list are taken out
\* of the record set, a name that is no exact member of the list is never
\* used, and resolving again on the filtered record set gives the same column.
C20_ResolutionOrderRespecting ==
    /\ SingleColumnSteps
    /\ PastFilterGrants =>
          /\ filter_by_agency(extract.df) =
                filter_by_agency(OnlyResolved(extract.df, agency_columns))
          /\ gpc = "active" =>
                \A aliases \in {cfda_columns, agency_columns, title_columns,
                                desc_columns, date_columns} :
                    Resolve(aliases, Columns(relevant)) =
                        Resolve(aliases, Columns(extract.df))

(***************************************************************************)
(* Column names of the written table                                       *)
(***************************************************************************)
\* no name occurs twice in a sequence of column names
PairwiseDistinct(names) ==
    \A i, j \in 1..Len(names) : names[i] = names[j] => i = j

\* C21: standardize_columns keeps the column names unique: when the acquired
\* record set has pairwise distinct column names, the renamed record set and
\* the header of the written data/crashes.csv have pairwise distinct names
\* too, also when two upstream aliases of one canonical field are present.
C21_RenamedColumnsUnique ==
    (pc = "returned" /\ wrote /\ PairwiseDistinct(raw.cols))
        => /\ PairwiseDistinct(df.cols)
           /\ PairwiseDistinct(outputFile.header)

====
